---- MODULE Spec2Model ----
(***************************************************************************)
(* kida_ml_workshop: three notebooks, each a top-to-bottom run of cells.   *)
(*                                                                         *)
(*   SpecSk  Part_1_introduction_sklearn.ipynb  (heart-disease workflow)   *)
(*   SpecAE  Part_2_Autoencoders_PyTorch.ipynb  (convolutional autoencoder)*)
(*   SpecAEFair  SpecAE with every enabled step eventually taken           *)
(*   SpecRag  the retrieval notebook (PDF, Milvus, hosted language model)  *)
(*   SpecRagRerun  SpecRag with the ingestion cells run a second time      *)
(*   SpecFail  notebook 2 or the retrieval notebook, library calls failing *)
(*                                                                         *)
(* A notebook run is a state machine: pc names the cell (or the statement  *)
(* of a loop) that runs next, the other variables are the names the cells  *)
(* bind, the files they write and the objects they mutate.  A raised       *)
(* exception stops the run at the cell that raised it.                     *)
(***************************************************************************)
EXTENDS Integers, Sequences, FiniteSets, TLC

VARIABLES
    \* ---- notebook 3 (scikit-learn) ----
    pc,              \* the cell that runs next
    raised,          \* "none", or the exception that stopped the run
    rng,             \* numpy's global random state (np.random)
    heart_disease,   \* the table read from heart-disease.csv
    X, y,            \* features frame, label series
    X_train, X_test, y_train, y_test,
    heap,            \* estimator objects, by object id
    clf,             \* the object id the name clf is bound to
    y_preds,         \* array of predictions on X_test
    train_acc, test_acc, accuracy,
    loop_i,          \* position of the running for loop in range(100, 200, 10)
    cross_val_mean,
    grid,            \* the GridSearchCV object
    fits,            \* every call of an estimator's fit: who, with which rows
    disk,            \* files of the working directory of notebook 3
    opened,          \* the files opened so far, in order, with their mode
    loaded_pickle_model,
    \* ---- notebook 2 (autoencoder) ----
    pcAE,            \* the statement of the training cell (or of train) that runs next
    raisedAE,        \* "none", or the exception that stopped the run
    trainset,        \* number of images of the CIFAR10 train set
    testset,         \* number of images of the CIFAR10 test set
    dirs,            \* the directories that exist
    written,         \* the image files written so far, in order
    epoch,           \* position of train's epoch loop in range(NUM_EPOCHS)
    batch,           \* number of batches the running epoch has taken from the loader
    consumed,        \* per batch of the loader, how often the running epoch took it
    steps,           \* calls of optimizer.step() so far
    running_loss,
    losses,          \* train's local list train_loss
    train_loss,      \* the cell's train_loss, once train has returned
    img, outputs,    \* shapes of the tensors img and outputs inside train

    \* ---- notebook 1 (retrieval-augmented generation) ----
    pcRag,           \* the cell (or the statement of the insert cell) that runs next
    raisedRag,       \* "none", or the exception that stopped the run
    environ,         \* os.environ: the value of each variable, NoValue when unset
    pdf_on_disk,     \* whether The-AI-Act.pdf is in the working directory
    docs,            \* the pages PyPDFLoader loaded
    chunks,          \* the chunks the splitter made of docs
    text_lines,
    test_embedding, embedding_dim,
    store,           \* the Milvus database file: collection name -> collection
    data,            \* the list the insert cell builds
    insert_res,
    question,
    search_res,
    retrieved_lines_with_distances,
    context,
    llm_client,
    prompt,
    answer,
    calls,           \* the library calls made so far, in order
    reruns           \* how often the user has gone back to an earlier cell

skVars == <<pc, raised, rng, heart_disease, X, y, X_train, X_test, y_train, y_test,
            heap, clf, y_preds, train_acc, test_acc, accuracy, loop_i,
            cross_val_mean, grid, fits, disk, opened, loaded_pickle_model>>
aeVars == <<pcAE, raisedAE, trainset, testset, dirs, written, epoch, batch, consumed,
            steps, running_loss, losses, train_loss, img, outputs>>
ragVars == <<pcRag, raisedRag, environ, pdf_on_disk, docs, chunks, text_lines,
             test_embedding, embedding_dim, store, data, insert_res, question,
             search_res, retrieved_lines_with_distances, context, llm_client, prompt,
             answer, calls, reruns>>
vars == <<skVars, aeVars, ragVars>>

----------------------------------------------------------------------------
(* Bounds of the model *)

\* the csv has at most MaxRows rows (303 in the real file)
MaxRows == 8
\* numpy's random state is one of RngMod values
RngMod == 8

\* the train set has at most MaxTrainImages images (50000 in CIFAR10)
MaxTrainImages == 260
\* the test set has at most MaxTestImages images (10000 in CIFAR10)
MaxTestImages == 2

\* the PDF has at most MaxPages pages
MaxPages == 3
\* an embedding has EmbeddingDim components (384 for BAAI/bge-small-en-v1.5)
EmbeddingDim == 2
\* the user goes back to an earlier cell at most MaxReruns times
MaxReruns == 1

(* Program constants *)

\* limit=3 of milvus_client.search
SEARCH_LIMIT == 3

NUM_EPOCHS == 10
BATCH_SIZE == 128
\* CIFAR10 images: 3 channels of 32 x 32
IMG_CHANNELS == 3
IMG_SIZE == 32
\* if epoch % 5 == 0
SAVE_EVERY == 5

\* np.random.seed(42)
SEED == 42
\* range(100, 200, 10)
N_EST_START == 100
N_EST_STOP == 200
N_EST_STEP == 10
\* range(1, 5, 1)
MAX_FEAT_START == 1
MAX_FEAT_STOP == 5
MAX_FEAT_STEP == 1
\* cv=5
CV == 5
\* RandomForestClassifier() defaults: n_estimators=100, max_features="sqrt" (coded 0)
DEFAULT_N_ESTIMATORS == 100
DEFAULT_MAX_FEATURES == 0
\* test_size=0.25, as the fraction TEST_SIZE_NUM / TEST_SIZE_DEN
TEST_SIZE_NUM == 25
TEST_SIZE_DEN == 100

----------------------------------------------------------------------------
(* Python and numpy helpers *)

\* range(start, stop, step) for step > 0, as a sequence
Range(start, stop, step) ==
    LET n == IF stop > start THEN (stop - start + step - 1) \div step ELSE 0
    IN  [k \in 1..n |-> start + (k - 1) * step]

\* the elements of a sequence
Elems(s) == {s[k] : k \in 1..Len(s)}

\* a sequence given as a function, as the tuple of its values
Tup(f) == SubSeq(f, 1, Len(f))

RECURSIVE SumSeq(_)
SumSeq(s) == IF s = <<>> THEN 0 ELSE s[1] + SumSeq(Tail(s))

RECURSIVE ProdSeq(_)
ProdSeq(s) == IF s = <<>> THEN 1 ELSE s[1] * ProdSeq(Tail(s))

\* math.ceil(a / b) for a >= 0, b > 0
Ceil(a, b) == (a + b - 1) \div b

\* a fraction num/den (den > 0); scores are compared as fractions
Frac(num, den) == [num |-> num, den |-> den]
FracEq(a, b) == a.num * b.den = b.num * a.den
FracLess(a, b) == a.num * b.den < b.num * a.den

\* the global random state after k draws
RngAfter(r, k) == (r + 3 * k) % RngMod

\* the global random state after one draw
NextRng(r) == RngAfter(r, 1)

\* np.random.seed(s)
Seeded(s) == s % RngMod

\* rng.permutation(n): a permutation of 0..n-1 decided by the random state
\* (a rotation, reversed for the upper half of the states)
Permutation(n, r) ==
    LET shift == r % n
        rev == (r \div n) % 2 = 1
    IN  [k \in 1..n |-> IF rev THEN (n - 1) - ((k - 1 + shift) % n)
                                ELSE (k - 1 + shift) % n]

----------------------------------------------------------------------------
(* pandas: a frame is its columns and its index (the row labels, in order);  *)
(* a series is its index and its values.                                     *)

FeatureColumns == {"age", "sex", "cp", "trestbps", "chol", "fbs", "restecg",
                   "thalach", "exang", "oldpeak", "slope", "ca", "thal"}
Columns == FeatureColumns \cup {"target"}

NoFrame == [columns |-> {}, index |-> <<>>]
NoSeries == [index |-> <<>>, values |-> <<>>]

\* the csv files the notebook may be given: n rows, the first numPos with target 1
\* (heart-disease.csv lists its target=1 rows first)
Table(n, numPos) ==
    [columns |-> Columns,
     index   |-> [k \in 1..n |-> k - 1],
     target  |-> [k \in 1..n |-> IF k <= numPos THEN 1 ELSE 0]]

\* a drop that leaves the column in
DropNothing(df, col) == [columns |-> df.columns, index |-> df.index]

\* heart_disease.drop("target", axis=1)
Drop(df, col) == [columns |-> df.columns \ {col}, index |-> df.index]

\* heart_disease["target"]
Column(df) == [index |-> df.index, values |-> df.target]

\* frame.iloc[positions], series.iloc[positions]  (positions are 0-based)
FrameIloc(f, pos) == [columns |-> f.columns,
                      index |-> [k \in 1..Len(pos) |-> f.index[pos[k] + 1]]]
SeriesIloc(s, pos) == [index |-> [k \in 1..Len(pos) |-> s.index[pos[k] + 1]],
                       values |-> [k \in 1..Len(pos) |-> s.values[pos[k] + 1]]]

\* the rows of a frame or a series
Rows(f) == Elems(f.index)

----------------------------------------------------------------------------
(* sklearn.model_selection.train_test_split(X, y, test_size=0.25)            *)

\* n_test rounded down instead of up
NumTestFloor(n) == (n * TEST_SIZE_NUM) \div TEST_SIZE_DEN

\* n_test = ceil(test_size * n_samples)
NumTest(n) == Ceil(n * TEST_SIZE_NUM, TEST_SIZE_DEN)

\* ValueError: the resulting train set would be empty
SplitRaises(Xf) == Len(Xf.index) - NumTest(Len(Xf.index)) = 0

\* the positions of the test rows: permutation[:n_test]
TestPositions(n, r) == SubSeq(Permutation(n, r), 1, NumTest(n))

\* the positions of the train rows: permutation[n_test:n_test + n_train]
TrainPositions(n, r) == SubSeq(Permutation(n, r), NumTest(n) + 1, n)

\* the series part of the split: y indexed with the positions chosen for X
SplitSeries(ys, pos) == SeriesIloc(ys, pos)

train_test_split(Xf, ys, r) ==
    LET n == Len(Xf.index)
    IN  [X_train |-> FrameIloc(Xf, TrainPositions(n, r)),
         X_test  |-> FrameIloc(Xf, TestPositions(n, r)),
         y_train |-> SplitSeries(ys, TrainPositions(n, r)),
         y_test  |-> SplitSeries(ys, TestPositions(n, r))]

----------------------------------------------------------------------------
(* sklearn.ensemble.RandomForestClassifier: an estimator object is its       *)
(* hyper-parameters and, once fitted, what the fit depended on: the rows it  *)
(* was given and the random state it drew.                                   *)

RandomForestClassifier(n_estimators, max_features) ==
    [n_estimators |-> n_estimators, max_features |-> max_features,
     fitted |-> FALSE, rows |-> {}, rstate |-> 0]

\* estimator.fit(X, y) with random_state=None: draws from the global state r
Fit(est, Xf, ys, r) ==
    [est EXCEPT !.fitted = TRUE, !.rows = Rows(Xf), !.rstate = r]

\* clone(estimator): the hyper-parameters, unfitted
Clone(est) == RandomForestClassifier(est.n_estimators, est.max_features)

\* The label a fitted forest gives row r.  The forest is opaque: its answer
\* is some function of the row, of what it was fitted on and of its
\* hyper-parameters, right on some rows and wrong on others.
PredictRow(est, r) ==
    LET truth == heart_disease.target[r + 1]
        wrong == ((est.rstate + 1) * (r + 2) + Cardinality(est.rows)
                  + (est.n_estimators \div N_EST_STEP) + est.max_features) % 3 = 0
    IN  IF wrong THEN 1 - truth ELSE truth

\* estimator.predict(X): an array, one label per row of X, in X's order
Predict(est, Xf) == [k \in 1..Len(Xf.index) |-> PredictRow(est, Xf.index[k])]

\* sklearn.metrics.accuracy_score(y_true, y_pred): compared by position
accuracy_score(y_true, y_pred) ==
    Frac(Cardinality({k \in 1..Len(y_pred) : y_true.values[k] = y_pred[k]}),
         Len(y_pred))

\* score as the number of right predictions, not their fraction (normalize=False)
ScoreCount(est, Xf, ys) ==
    Frac(accuracy_score(ys, Predict(est, Xf)).num, 1)

\* ClassifierMixin.score(X, y) = accuracy_score(y, self.predict(X))
Score(est, Xf, ys) == accuracy_score(ys, Predict(est, Xf))

\* one entry of the log of fits
FitRecord(site, est, Xf) ==
    [site |-> site, n_estimators |-> est.n_estimators,
     max_features |-> est.max_features, rows |-> Rows(Xf),
     columns |-> Xf.columns]

----------------------------------------------------------------------------
(* sklearn.model_selection.StratifiedKFold(n_splits=5), shuffle=False        *)

\* the classes of y, coded 0, 1, ... by first appearance
FirstPos(vals, v) == CHOOSE k \in 1..Len(vals) :
                        vals[k] = v /\ \A j \in 1..(k - 1) : vals[j] # v
Encoded(vals) ==
    Tup([k \in 1..Len(vals) |->
        Cardinality({v \in Elems(vals) : FirstPos(vals, v) < FirstPos(vals, vals[k])})])

ClassCount(enc, c) == Cardinality({k \in 1..Len(enc) : enc[k] = c})

\* y_order = np.sort(y_encoded)
YOrder(enc) ==
    Tup([j \in 1..Len(enc) |->
        CHOOSE c \in Elems(enc) :
            /\ Cardinality({k \in 1..Len(enc) : enc[k] < c}) < j
            /\ j <= Cardinality({k \in 1..Len(enc) : enc[k] <= c})])

\* allocation[i][c] = bincount(y_order[i::n_splits])[c]
Allocation(order, i, c) ==
    Cardinality({j \in 1..Len(order) : (j - 1) % CV = i /\ order[j] = c})

\* ValueError: more splits than samples, or than the members of every class
KFoldRaisesOn(enc) ==
    \/ CV > Len(enc)
    \/ \A c \in Elems(enc) : CV > ClassCount(enc, c)
KFoldRaises(ys) == KFoldRaisesOn(Encoded(ys.values))

\* test_folds[k]: the fold whose test set holds position k; the members of
\* class c, in the order of y, get fold 0 allocation[0][c] times, then fold 1, ...
TestFoldsOn(enc, order) ==
    Tup([k \in 1..Len(enc) |->
            LET c == enc[k]
                m == Cardinality({j \in 1..k : enc[j] = c})
                Upto(i) == SumSeq([q \in 1..i |-> Allocation(order, q - 1, c)])
            IN  CHOOSE i \in 0..(CV - 1) : Upto(i) < m /\ m <= Upto(i + 1)])
TestFoldsOf(enc) == TestFoldsOn(enc, YOrder(enc))
TestFolds(ys) == TestFoldsOf(Encoded(ys.values))

\* positions (0-based, ascending) of the test and the train rows of split i
RECURSIVE Filter(_, _, _)
Filter(tf, i, k) ==
    IF k > Len(tf) THEN <<>>
    ELSE (IF tf[k] = i THEN <<k - 1>> ELSE <<>>) \o Filter(tf, i, k + 1)
RECURSIVE FilterNot(_, _, _)
FilterNot(tf, i, k) ==
    IF k > Len(tf) THEN <<>>
    ELSE (IF tf[k] # i THEN <<k - 1>> ELSE <<>>) \o FilterNot(tf, i, k + 1)
FoldTest(tf, i) == Filter(tf, i, 1)
FoldTrain(tf, i) == FilterNot(tf, i, 1)

\* the rows a split's estimator is fitted on: the split's train rows
FoldFitFrame(Xf, tf, i) == FrameIloc(Xf, FoldTrain(tf, i))

\* _fit_and_score of split i of the folds tf: a clone fitted on the split's
\* train rows, scored on its test rows; draw is the number of fits before it
FitAndScore(est, Xf, ys, tf, i, r, draw) ==
    LET fitted == Fit(Clone(est), FoldFitFrame(Xf, tf, i),
                      SeriesIloc(ys, FoldTrain(tf, i)), RngAfter(r, draw))
    IN  Score(fitted, FrameIloc(Xf, FoldTest(tf, i)), SeriesIloc(ys, FoldTest(tf, i)))

\* cross_val_score(estimator, X, y, cv=5): the scores of the 5 splits
CrossValOn(est, Xf, ys, tf, r) ==
    Tup([i \in 1..CV |-> FitAndScore(est, Xf, ys, tf, i - 1, r, i - 1)])
cross_val_score(est, Xf, ys, r) == CrossValOn(est, Xf, ys, TestFolds(ys), r)

\* the fits cross-validation makes with est
CvFitsOn(site, est, Xf, tf) ==
    {FitRecord(site, est, FoldFitFrame(Xf, tf, i)) : i \in 0..(CV - 1)}
CvFits(site, est, Xf, ys) == CvFitsOn(site, est, Xf, TestFolds(ys))

\* np.mean of a sequence of fractions
MeanOver(scores, L) ==
    Frac(SumSeq([k \in 1..Len(scores) |-> scores[k].num * (L \div scores[k].den)]),
         Len(scores) * L)
Mean(scores) == MeanOver(scores, ProdSeq([k \in 1..Len(scores) |-> scores[k].den]))

----------------------------------------------------------------------------
(* sklearn.model_selection.GridSearchCV(estimator, param_grid, cv=5)         *)

param_grid ==
    [n_estimators |-> Range(N_EST_START, N_EST_STOP, N_EST_STEP),
     max_features |-> Range(MAX_FEAT_START, MAX_FEAT_STOP, MAX_FEAT_STEP)]

\* ParameterGrid(param_grid): the keys sorted (max_features, n_estimators),
\* their values multiplied out, the last key varying fastest
ParameterGrid(pg) ==
    LET nn == Len(pg.n_estimators)
    IN  Tup([c \in 1..(Len(pg.max_features) * nn) |->
            [max_features |-> pg.max_features[((c - 1) \div nn) + 1],
             n_estimators |-> pg.n_estimators[((c - 1) % nn) + 1]]])

\* the (candidate, split) pairs in the order evaluate_candidates runs them:
\* product(candidates, splits)
Evaluations(numCand) ==
    Tup([e \in 1..(numCand * CV) |->
            [cand |-> ((e - 1) \div CV) + 1, split |-> (e - 1) % CV]])

\* best_index_ taken at the lowest mean score instead of the highest
BestIndexLowest(results) ==
    CHOOSE b \in 1..Len(results) :
        \A c \in 1..Len(results) :
            ~FracLess(results[c].mean_test_score, results[b].mean_test_score)

\* best_index_: the first candidate ranked 1 by mean_test_score
BestIndex(results) ==
    CHOOSE b \in 1..Len(results) :
        /\ \A c \in 1..Len(results) :
              ~FracLess(results[b].mean_test_score, results[c].mean_test_score)
        /\ \A c \in 1..(b - 1) :
              FracLess(results[c].mean_test_score, results[b].mean_test_score)

NoGrid == [fitted |-> FALSE, evaluated |-> <<>>, cv_results_ |-> <<>>, best_index_ |-> 0,
           best_params_ |-> [max_features |-> 0, n_estimators |-> 0],
           best_score_ |-> Frac(0, 1), best_estimator_ |-> "none"]

\* the score of every evaluation, in the order they run
EvalScores(cands, evals, tf, Xf, ys, r) ==
    Tup([e \in 1..Len(evals) |->
            FitAndScore(RandomForestClassifier(cands[evals[e].cand].n_estimators,
                                               cands[evals[e].cand].max_features),
                        Xf, ys, tf, evals[e].split, r, e - 1)])

\* cv_results_: per candidate, its parameters, split scores and mean score
CvResults(cands, evals, score) ==
    Tup([c \in 1..Len(cands) |->
            [params |-> cands[c],
             split_test_score |->
                 Tup([i \in 1..CV |->
                        score[CHOOSE e \in 1..Len(evals) :
                                 evals[e].cand = c /\ evals[e].split = i - 1
                                 /\ \A d \in 1..(e - 1) :
                                       ~(evals[d].cand = c /\ evals[d].split = i - 1)]]),
             mean_test_score |->
                 Mean(Tup([i \in 1..CV |->
                        score[CHOOSE e \in 1..Len(evals) :
                                 evals[e].cand = c /\ evals[e].split = i - 1
                                 /\ \A d \in 1..(e - 1) :
                                       ~(evals[d].cand = c /\ evals[d].split = i - 1)]]))]])

\* the fitted GridSearchCV object
GridObject(cands, evals, results, best) ==
    [fitted |-> TRUE, evaluated |-> evals, cv_results_ |-> results,
     best_index_ |-> best, best_params_ |-> cands[best],
     best_score_ |-> results[best].mean_test_score,
     best_estimator_ |-> "best"]

GridFitResults(cands, evals, results) ==
    GridObject(cands, evals, results, BestIndex(results))
GridFitOn(cands, evals, tf, Xf, ys, r) ==
    GridFitResults(cands, evals, CvResults(cands, evals, EvalScores(cands, evals, tf, Xf, ys, r)))
GridFitCands(cands, tf, Xf, ys, r) ==
    GridFitOn(cands, Evaluations(Len(cands)), tf, Xf, ys, r)

\* grid.fit(X, y): every candidate on every split, then the best candidate
\* refitted on all of X (refit=True) as the object best_estimator_
GridFit(pg, Xf, ys, r) == GridFitCands(ParameterGrid(pg), TestFolds(ys), Xf, ys, r)

\* the fits grid.fit makes on the splits
GridFitsOn(cands, tf, Xf) ==
    {FitRecord("grid_cv",
               RandomForestClassifier(cands[c].n_estimators, cands[c].max_features),
               FoldFitFrame(Xf, tf, i)) : c \in 1..Len(cands), i \in 0..(CV - 1)}
GridFits(pg, Xf, ys) == GridFitsOn(ParameterGrid(pg), TestFolds(ys), Xf)

----------------------------------------------------------------------------
(* pickle: dump writes the object's attributes, every object it refers to    *)
(* written out in place; load builds new objects from what the file holds.   *)

MODEL_FILE == "random_forest_model_1_grid.pkl"

NoObject == RandomForestClassifier(0, 0)
NoFile == [exists |-> FALSE, bytes |-> <<>>]

\* the value written under key in a pickled attribute list
Attr(bytes, key) ==
    LET k == CHOOSE k \in 1..Len(bytes) : bytes[k][1] = key
    IN  bytes[k][2]

\* pickle.dumps(grid): the attributes of the GridSearchCV object; the
\* estimator object best_estimator_ refers to is written by value
Dumps(g, h) ==
    << <<"fitted", g.fitted>>,
       <<"evaluated", g.evaluated>>,
       <<"cv_results_", g.cv_results_>>,
       <<"best_index_", g.best_index_>>,
       <<"best_params_", g.best_params_>>,
       <<"best_score_", g.best_score_>>,
       <<"best_estimator_", IF g.fitted THEN h[g.best_estimator_] ELSE NoObject>> >>

\* pickle.loads(bytes): the GridSearchCV object, its estimator a new object
LoadsGrid(bytes) ==
    [fitted |-> Attr(bytes, "fitted"),
     evaluated |-> Attr(bytes, "evaluated"),
     cv_results_ |-> Attr(bytes, "cv_results_"),
     best_index_ |-> Attr(bytes, "best_index_"),
     best_params_ |-> Attr(bytes, "best_params_"),
     best_score_ |-> Attr(bytes, "best_score_"),
     best_estimator_ |-> IF Attr(bytes, "fitted") THEN "loaded_best" ELSE "none"]
LoadsEstimator(bytes) == Attr(bytes, "best_estimator_")

----------------------------------------------------------------------------
(* Part_1_introduction_sklearn.ipynb, cell by cell                           *)

\* the cells of the notebook (and the steps inside its loop and grid cells),
\* top to bottom
CellOrder == <<"read_csv", "make_Xy", "split", "new_clf", "fit", "predict", "score_train",
               "score_test", "report", "confusion", "accuracy", "loop1", "loop1_body",
               "loop2", "loop2_body", "grid", "grid_fit", "best", "refit", "dump", "load",
               "end">>
CellIndex(cell) == CHOOSE k \in 1..Len(CellOrder) : CellOrder[k] = cell

\* the run has completed the given cell
Past(cell) == pc \in Elems(CellOrder) /\ CellIndex(pc) > CellIndex(cell)

Running == raised = "none"

\* the values of the for loops: range(100, 200, 10)
N_ESTIMATORS_RANGE == Range(N_EST_START, N_EST_STOP, N_EST_STEP)

\* heart_disease = pd.read_csv(url): whatever table the url serves
ReadCsv ==
    /\ Running /\ pc = "read_csv"
    /\ \E n \in 1..MaxRows : \E numPos \in 0..n : heart_disease' = Table(n, numPos)
    /\ pc' = "make_Xy"
    /\ UNCHANGED <<raised, rng, X, y, X_train, X_test, y_train, y_test, heap, clf,
                   y_preds, train_acc, test_acc, accuracy, loop_i, cross_val_mean,
                   grid, fits, disk, opened, loaded_pickle_model>>

\* X = heart_disease.drop("target", axis=1); y = heart_disease["target"]
MakeXy ==
    /\ Running /\ pc = "make_Xy"
    /\ X' = Drop(heart_disease, "target")
    /\ y' = Column(heart_disease)
    /\ pc' = "split"
    /\ UNCHANGED <<raised, rng, heart_disease, X_train, X_test, y_train, y_test, heap,
                   clf, y_preds, train_acc, test_acc, accuracy, loop_i, cross_val_mean,
                   grid, fits, disk, opened, loaded_pickle_model>>

\* X_train, X_test, y_train, y_test = train_test_split(X, y, test_size=0.25)
Split ==
    /\ Running /\ pc = "split"
    /\ IF SplitRaises(X)
       THEN /\ raised' = "ValueError"
            /\ UNCHANGED <<pc, rng, X_train, X_test, y_train, y_test>>
       ELSE LET s == train_test_split(X, y, rng)
            IN  /\ X_train' = s.X_train /\ X_test' = s.X_test
                /\ y_train' = s.y_train /\ y_test' = s.y_test
                /\ rng' = NextRng(rng)
                /\ pc' = "new_clf"
                /\ UNCHANGED raised
    /\ UNCHANGED <<heart_disease, X, y, heap, clf, y_preds, train_acc, test_acc,
                   accuracy, loop_i, cross_val_mean, grid, fits, disk, opened,
                   loaded_pickle_model>>

\* clf = RandomForestClassifier()
NewClf ==
    /\ Running /\ pc = "new_clf"
    /\ heap' = [heap EXCEPT !["clf0"] =
                    RandomForestClassifier(DEFAULT_N_ESTIMATORS, DEFAULT_MAX_FEATURES)]
    /\ clf' = "clf0"
    /\ pc' = "fit"
    /\ UNCHANGED <<raised, rng, heart_disease, X, y, X_train, X_test, y_train, y_test,
                   y_preds, train_acc, test_acc, accuracy, loop_i, cross_val_mean,
                   grid, fits, disk, opened, loaded_pickle_model>>

\* the frame the cells that fit on the train split hand to fit: X_train
TrainFrame == X_train

\* clf.fit(X=X_train, y=y_train)
FitClf ==
    /\ Running /\ pc = "fit"
    /\ heap' = [heap EXCEPT ![clf] = Fit(heap[clf], TrainFrame, y_train, rng)]
    /\ fits' = fits \cup {FitRecord("fit", heap[clf], TrainFrame)}
    /\ rng' = NextRng(rng)
    /\ pc' = "predict"
    /\ UNCHANGED <<raised, heart_disease, X, y, X_train, X_test, y_train, y_test, clf,
                   y_preds, train_acc, test_acc, accuracy, loop_i, cross_val_mean,
                   grid, disk, opened, loaded_pickle_model>>

\* y_preds = clf.predict(X=X_test)
PredictCell ==
    /\ Running /\ pc = "predict"
    /\ y_preds' = Predict(heap[clf], X_test)
    /\ pc' = "score_train"
    /\ UNCHANGED <<raised, rng, heart_disease, X, y, X_train, X_test, y_train, y_test,
                   heap, clf, train_acc, test_acc, accuracy, loop_i, cross_val_mean,
                   grid, fits, disk, opened, loaded_pickle_model>>

\* train_acc = clf.score(X=X_train, y=y_train)
ScoreTrain ==
    /\ Running /\ pc = "score_train"
    /\ train_acc' = Score(heap[clf], X_train, y_train)
    /\ pc' = "score_test"
    /\ UNCHANGED <<raised, rng, heart_disease, X, y, X_train, X_test, y_train, y_test,
                   heap, clf, y_preds, test_acc, accuracy, loop_i, cross_val_mean,
                   grid, fits, disk, opened, loaded_pickle_model>>

\* test_acc = clf.score(X=X_test, y=y_test)
ScoreTest ==
    /\ Running /\ pc = "score_test"
    /\ test_acc' = Score(heap[clf], X_test, y_test)
    /\ pc' = "report"
    /\ UNCHANGED <<raised, rng, heart_disease, X, y, X_train, X_test, y_train, y_test,
                   heap, clf, y_preds, train_acc, accuracy, loop_i, cross_val_mean,
                   grid, fits, disk, opened, loaded_pickle_model>>

\* print(classification_report(y_test, y_preds)); confusion_matrix(y_test, y_preds):
\* two cells that only display
Report ==
    /\ Running /\ pc \in {"report", "confusion"}
    /\ pc' = IF pc = "report" THEN "confusion" ELSE "accuracy"
    /\ UNCHANGED <<raised, rng, heart_disease, X, y, X_train, X_test, y_train, y_test,
                   heap, clf, y_preds, train_acc, test_acc, accuracy, loop_i,
                   cross_val_mean, grid, fits, disk, opened, loaded_pickle_model>>

\* accuracy_score(y_test, y_preds)
AccuracyCell ==
    /\ Running /\ pc = "accuracy"
    /\ accuracy' = accuracy_score(y_test, y_preds)
    /\ pc' = "loop1"
    /\ UNCHANGED <<raised, rng, heart_disease, X, y, X_train, X_test, y_train, y_test,
                   heap, clf, y_preds, train_acc, test_acc, loop_i, cross_val_mean,
                   grid, fits, disk, opened, loaded_pickle_model>>

\* np.random.seed(42), first statement of the two loop cells and the grid cell
SeedCell ==
    /\ Running /\ pc \in {"loop1", "loop2", "grid"}
    /\ rng' = Seeded(SEED)
    /\ loop_i' = 1
    /\ pc' = CASE pc = "loop1" -> "loop1_body"
               [] pc = "loop2" -> "loop2_body"
               [] pc = "grid" -> "grid_fit"
    /\ UNCHANGED <<raised, heart_disease, X, y, X_train, X_test, y_train, y_test, heap,
                   clf, y_preds, train_acc, test_acc, accuracy, cross_val_mean, grid,
                   fits, disk, opened, loaded_pickle_model>>

\* for i in range(100, 200, 10):
\*     model = RandomForestClassifier(n_estimators=i).fit(X_train, y_train)
\*     model.score(X_test, y_test)
Loop1Body ==
    /\ Running /\ pc = "loop1_body"
    /\ LET i == N_ESTIMATORS_RANGE[loop_i]
           model == RandomForestClassifier(i, DEFAULT_MAX_FEATURES)
       IN  /\ heap' = [heap EXCEPT !["model"] = Fit(model, TrainFrame, y_train, rng)]
           /\ fits' = fits \cup {FitRecord("loop1", model, TrainFrame)}
    /\ rng' = NextRng(rng)
    /\ loop_i' = loop_i + 1
    /\ pc' = IF loop_i = Len(N_ESTIMATORS_RANGE) THEN "loop2" ELSE "loop1_body"
    /\ UNCHANGED <<raised, heart_disease, X, y, X_train, X_test, y_train, y_test, clf,
                   y_preds, train_acc, test_acc, accuracy, cross_val_mean, grid, disk,
                   opened, loaded_pickle_model>>

\* the table the cross-validation of the second loop is given: the full X
CrossValFrame == X

\* for i in range(100, 200, 10):
\*     model = RandomForestClassifier(n_estimators=i).fit(X_train, y_train)
\*     model_score = model.score(X_test, y_test)
\*     cross_val_mean = np.mean(cross_val_score(model, X, y, cv=5))
Loop2Body ==
    /\ Running /\ pc = "loop2_body"
    /\ LET i == N_ESTIMATORS_RANGE[loop_i]
           model == RandomForestClassifier(i, DEFAULT_MAX_FEATURES)
           fitted == Fit(model, TrainFrame, y_train, rng)
       IN  /\ heap' = [heap EXCEPT !["model"] = fitted]
           /\ IF KFoldRaises(y)
              THEN /\ raised' = "ValueError"
                   /\ fits' = fits \cup {FitRecord("loop2", model, TrainFrame)}
                   /\ rng' = NextRng(rng)
                   /\ UNCHANGED <<pc, loop_i, cross_val_mean>>
              ELSE /\ cross_val_mean' =
                        Mean(cross_val_score(fitted, CrossValFrame, y, NextRng(rng)))
                   /\ fits' = fits \cup {FitRecord("loop2", model, TrainFrame)}
                                   \cup CvFits("cross_val_score", model, CrossValFrame, y)
                   /\ rng' = RngAfter(rng, 1 + CV)
                   /\ loop_i' = loop_i + 1
                   /\ pc' = IF loop_i = Len(N_ESTIMATORS_RANGE) THEN "grid" ELSE "loop2_body"
                   /\ UNCHANGED raised
    /\ UNCHANGED <<heart_disease, X, y, X_train, X_test, y_train, y_test, clf, y_preds,
                   train_acc, test_acc, accuracy, grid, disk, opened, loaded_pickle_model>>

\* grid = GridSearchCV(RandomForestClassifier(), param_grid, cv=5); grid.fit(X, y)
GridCell ==
    /\ Running /\ pc = "grid_fit"
    /\ IF KFoldRaises(y)
       THEN /\ raised' = "ValueError"
            /\ UNCHANGED <<pc, rng, grid, heap, fits>>
       ELSE /\ grid' = GridFit(param_grid, X, y, rng)
            /\ LET n == Len(grid'.evaluated)
                   best == RandomForestClassifier(grid'.best_params_.n_estimators,
                                                  grid'.best_params_.max_features)
               IN  /\ heap' = [heap EXCEPT !["best"] = Fit(best, X, y, RngAfter(rng, n))]
                   /\ fits' = fits \cup GridFits(param_grid, X, y)
                                   \cup {FitRecord("grid_refit", best, X)}
                   /\ rng' = RngAfter(rng, n + 1)
                /\ pc' = "best"
                /\ UNCHANGED raised
    /\ UNCHANGED <<heart_disease, X, y, X_train, X_test, y_train, y_test, clf, y_preds,
                   train_acc, test_acc, accuracy, loop_i, cross_val_mean, disk, opened,
                   loaded_pickle_model>>

\* clf = grid.best_estimator_: the name clf now refers to the grid's object
BestCell ==
    /\ Running /\ pc = "best"
    /\ clf' = grid.best_estimator_
    /\ pc' = "refit"
    /\ UNCHANGED <<raised, rng, heart_disease, X, y, X_train, X_test, y_train, y_test,
                   heap, y_preds, train_acc, test_acc, accuracy, loop_i, cross_val_mean,
                   grid, fits, disk, opened, loaded_pickle_model>>

\* clf = clf.fit(X_train, y_train); clf.score(X_test, y_test)
RefitCell ==
    /\ Running /\ pc = "refit"
    /\ heap' = [heap EXCEPT ![clf] = Fit(heap[clf], TrainFrame, y_train, rng)]
    /\ fits' = fits \cup {FitRecord("refit", heap[clf], TrainFrame)}
    /\ rng' = NextRng(rng)
    /\ pc' = "dump"
    /\ UNCHANGED <<raised, heart_disease, X, y, X_train, X_test, y_train, y_test, clf,
                   y_preds, train_acc, test_acc, accuracy, loop_i, cross_val_mean, grid,
                   disk, opened, loaded_pickle_model>>

\* a dump that keeps only the hyper-parameters of the estimators it writes
PickledByParams(g, h) == Dumps(g, [o \in DOMAIN h |-> Clone(h[o])])

\* what pickle.dump writes for the grid object
Pickled(g, h) == Dumps(g, h)

\* pickle.dump(grid, open("random_forest_model_1_grid.pkl", "wb")): "wb"
\* truncates or creates the file; the file object is dropped, and so closed
\* and flushed, when the statement ends
DumpCell ==
    /\ Running /\ pc = "dump"
    /\ opened' = Append(opened, <<MODEL_FILE, "wb">>)
    /\ disk' = [disk EXCEPT ![MODEL_FILE] = [exists |-> TRUE, bytes |-> Pickled(grid, heap)]]
    /\ pc' = "load"
    /\ UNCHANGED <<raised, rng, heart_disease, X, y, X_train, X_test, y_train, y_test,
                   heap, clf, y_preds, train_acc, test_acc, accuracy, loop_i,
                   cross_val_mean, grid, fits, loaded_pickle_model>>

\* loaded_pickle_model = pickle.load(open("random_forest_model_1_grid.pkl", "rb"))
\* loaded_pickle_model.score(X_test, y_test)
LoadCell ==
    /\ Running /\ pc = "load"
    /\ IF ~disk[MODEL_FILE].exists
       THEN /\ raised' = "FileNotFoundError"
            /\ UNCHANGED <<pc, opened, heap, loaded_pickle_model>>
       ELSE /\ opened' = Append(opened, <<MODEL_FILE, "rb">>)
            /\ loaded_pickle_model' = LoadsGrid(disk[MODEL_FILE].bytes)
            /\ heap' = [heap EXCEPT !["loaded_best"] = LoadsEstimator(disk[MODEL_FILE].bytes)]
            /\ pc' = "end"
            /\ UNCHANGED raised
    /\ UNCHANGED <<rng, heart_disease, X, y, X_train, X_test, y_train, y_test, clf,
                   y_preds, train_acc, test_acc, accuracy, loop_i, cross_val_mean, grid,
                   fits, disk>>

\* notebook 3 before its first cell: nothing bound, the random state whatever
\* the process started with, the model file absent or left by an earlier run
SkStart ==
    /\ pc = "read_csv" /\ raised = "none"
    /\ rng \in 0..(RngMod - 1)
    /\ heart_disease = Table(0, 0)
    /\ X = NoFrame /\ y = NoSeries
    /\ X_train = NoFrame /\ X_test = NoFrame
    /\ y_train = NoSeries /\ y_test = NoSeries
    /\ heap = [o \in {"clf0", "model", "best", "loaded_best"} |-> NoObject]
    /\ clf = "none"
    /\ y_preds = <<>>
    /\ train_acc = Frac(0, 1) /\ test_acc = Frac(0, 1) /\ accuracy = Frac(0, 1)
    /\ loop_i = 0
    /\ cross_val_mean = Frac(0, 1)
    /\ grid = NoGrid
    /\ fits = {}
    /\ disk \in {[f \in {MODEL_FILE} |-> NoFile],
                 [f \in {MODEL_FILE} |-> [exists |-> TRUE, bytes |-> Dumps(NoGrid, <<>>)]]}
    /\ opened = <<>>
    /\ loaded_pickle_model = NoGrid

\* a notebook that is not the one being run
SkIdle ==
    /\ pc = "off" /\ raised = "none" /\ rng = 0
    /\ heart_disease = Table(0, 0)
    /\ X = NoFrame /\ y = NoSeries
    /\ X_train = NoFrame /\ X_test = NoFrame
    /\ y_train = NoSeries /\ y_test = NoSeries
    /\ heap = [o \in {"clf0", "model", "best", "loaded_best"} |-> NoObject]
    /\ clf = "none"
    /\ y_preds = <<>>
    /\ train_acc = Frac(0, 1) /\ test_acc = Frac(0, 1) /\ accuracy = Frac(0, 1)
    /\ loop_i = 0
    /\ cross_val_mean = Frac(0, 1)
    /\ grid = NoGrid
    /\ fits = {}
    /\ disk = [f \in {MODEL_FILE} |-> NoFile]
    /\ opened = <<>>
    /\ loaded_pickle_model = NoGrid

----------------------------------------------------------------------------
(* Part_2_Autoencoders_PyTorch.ipynb                                         *)

\* len(DataLoader(dataset, batch_size=BATCH_SIZE)): drop_last is False
LoaderLen(n) == Ceil(n, BATCH_SIZE)

\* the number of images of batch b (1-based) of a loader over n images
BatchLen(n, b) == IF b * BATCH_SIZE <= n THEN BATCH_SIZE ELSE n - (b - 1) * BATCH_SIZE

\* a batch of images as a tensor shape: (B, 3, 32, 32)
ImageBatch(b) == <<b, IMG_CHANNELS, IMG_SIZE, IMG_SIZE>>

\* number of values of a tensor of the given shape
Numel(shape) == ProdSeq(shape)

\* the layers of AutoEncoder: nn.Conv2d(in, out, kernel), nn.ConvTranspose2d(in, out, kernel)
enc1 == [in |-> 3, out |-> 8, kernel |-> 3]
enc2 == [in |-> 8, out |-> 4, kernel |-> 3]
dec1 == [in |-> 4, out |-> 8, kernel |-> 3]
dec2 == [in |-> 8, out |-> 3, kernel |-> 3]

\* output shape of nn.Conv2d (stride 1, no padding); <<>> when the channels
\* of the input are not the layer's (a RuntimeError)
Conv2d(layer, x) ==
    IF x = <<>> \/ x[2] # layer.in \/ x[3] < layer.kernel \/ x[4] < layer.kernel THEN <<>>
    ELSE <<x[1], layer.out, x[3] - layer.kernel + 1, x[4] - layer.kernel + 1>>

\* output shape of nn.ConvTranspose2d (stride 1, no padding)
ConvTranspose2d(layer, x) ==
    IF x = <<>> \/ x[2] # layer.in THEN <<>>
    ELSE <<x[1], layer.out, x[3] + layer.kernel - 1, x[4] + layer.kernel - 1>>

\* the encoder half of forward: relu keeps the shape
Encode(x) == Conv2d(enc2, Conv2d(enc1, x))

\* the decoder half of forward
Decode(x) == ConvTranspose2d(dec2, ConvTranspose2d(dec1, x))

\* AutoEncoder.forward(x)
Forward(x) == Decode(Encode(x))

\* the directory make_dir makes and save_decoded_image writes into
IMAGE_DIR == "./image_cifar10/"
CWD == "./"

\* a file path: directory, name and extension; a name is a stem and, where
\* str.format put one in, a number
Path(dir, stem, num) == [dir |-> dir, stem |-> stem, num |-> num, ext |-> ".png"]
Format(stem, num) == <<stem, num>>
NoNumber == <<>>

\* the directory make_dir tests and creates
MakeDirTarget == IMAGE_DIR

\* the file save_decoded_image(img, name) writes:
\* './image_cifar10/' + name + '.png'
DecodedImagePath(name) == Path(IMAGE_DIR, name[1], <<name[2]>>)

LOSS_FILE == Path(CWD, "conv_ae_cifar10_loss", NoNumber)
RECONSTRUCTION_FILE == Path(CWD, "conv_cifar10_reconstruction", NoNumber)

\* img.view(img.size(0), 3, 32, 32) raises unless the values fit
ViewRaises(x) == x = <<>> \/ Numel(x) # x[1] * IMG_CHANNELS * IMG_SIZE * IMG_SIZE

\* save_image(tensor, path) raises when the directory of path is missing
SaveRaises(path) == path.dir \notin dirs

\* one epoch too many
EpochRangeOffByOne == Range(0, NUM_EPOCHS + 1, 1)

\* for epoch in range(NUM_EPOCHS)
EpochRange == Range(0, NUM_EPOCHS, 1)

\* loss.item() of a batch: some positive number
LossItem(e, b) == 1 + ((e + b) % 2)

RunningAE == raisedAE = "none"

\* os.path.exists(path)
PathExists(path) == path \in dirs

\* os.mkdir(path) raises FileExistsError when the path exists
MkdirRaises(path) == PathExists(path)

\* a make_dir that calls os.mkdir whether or not the directory is there
MakeDirMkdirAlways(image_dir) == TRUE

\* make_dir: if not os.path.exists(image_dir)
MakeDirCallsMkdir(image_dir) == ~PathExists(image_dir)

\* model.to(device); make_dir()
MakeDir ==
    /\ RunningAE /\ pcAE = "make_dir"
    /\ IF MakeDirCallsMkdir(MakeDirTarget) /\ MkdirRaises(MakeDirTarget)
       THEN /\ raisedAE' = "FileExistsError"
            /\ UNCHANGED <<dirs, epoch, losses, pcAE>>
       ELSE /\ dirs' = IF MakeDirCallsMkdir(MakeDirTarget)
                       THEN dirs \cup {MakeDirTarget} ELSE dirs
            /\ epoch' = 1
            /\ losses' = <<>>
            /\ pcAE' = "epoch"
            /\ UNCHANGED raisedAE
    /\ UNCHANGED <<trainset, testset, written, batch, consumed, steps,
                   running_loss, train_loss, img, outputs>>

\* train: for epoch in range(NUM_EPOCHS): running_loss = 0.0
EpochStart ==
    /\ RunningAE /\ pcAE = "epoch" /\ epoch <= Len(EpochRange)
    /\ running_loss' = 0
    /\ batch' = 0
    /\ consumed' = [b \in 1..LoaderLen(trainset) |-> 0]
    /\ pcAE' = "batch"
    /\ UNCHANGED <<raisedAE, trainset, testset, dirs, written, epoch, steps, losses,
                   train_loss, img, outputs>>

\* train: for data in trainloader: ... optimizer.step(); running_loss += loss.item()
TrainBatch ==
    /\ RunningAE /\ pcAE = "batch" /\ batch < LoaderLen(trainset)
    /\ batch' = batch + 1
    /\ consumed' = [consumed EXCEPT ![batch + 1] = @ + 1]
    /\ img' = ImageBatch(BatchLen(trainset, batch + 1))
    /\ outputs' = Forward(img')
    /\ steps' = steps + 1
    /\ running_loss' = running_loss + LossItem(EpochRange[epoch], batch + 1)
    /\ UNCHANGED <<pcAE, raisedAE, trainset, testset, dirs, written, epoch, losses,
                   train_loss>>

\* train: outputs = net(img) or loss.backward() raises (the device runs out of
\* memory, say); train has no try: the error leaves train and the cell
TrainBatchFails ==
    /\ RunningAE /\ pcAE = "batch" /\ batch < LoaderLen(trainset)
    /\ raisedAE' = "RuntimeError"
    /\ UNCHANGED <<pcAE, trainset, testset, dirs, written, epoch, batch, consumed,
                   steps, running_loss, losses, train_loss, img, outputs>>

\* the epoch's images saved without the test epoch % 5 == 0
EpochImagesEveryEpoch(e) ==
    <<DecodedImagePath(Format("original", e)), DecodedImagePath(Format("decoded", e))>>

\* the files an epoch saves: original{epoch} and decoded{epoch}, every 5th epoch
EpochImages(e) ==
    IF e % SAVE_EVERY = 0
    THEN <<DecodedImagePath(Format("original", e)), DecodedImagePath(Format("decoded", e))>>
    ELSE <<>>

\* train, after the batches of an epoch: loss = running_loss / len(trainloader);
\* train_loss.append(loss); if epoch % 5 == 0: save_decoded_image(img ...),
\* save_decoded_image(outputs ...)
EpochEnd ==
    /\ RunningAE /\ pcAE = "batch" /\ batch = LoaderLen(trainset)
    /\ IF LoaderLen(trainset) = 0
       THEN /\ raisedAE' = "ZeroDivisionError"
            /\ UNCHANGED <<pcAE, epoch, losses, written>>
       ELSE /\ losses' = Append(losses, Frac(running_loss, LoaderLen(trainset)))
            /\ LET files == EpochImages(EpochRange[epoch])
               IN  IF files = <<>>
                   THEN /\ epoch' = epoch + 1 /\ pcAE' = "epoch"
                        /\ UNCHANGED <<raisedAE, written>>
                   ELSE IF ViewRaises(img) \/ SaveRaises(files[1])
                   THEN /\ raisedAE' = IF ViewRaises(img) THEN "RuntimeError"
                                       ELSE "FileNotFoundError"
                        /\ UNCHANGED <<pcAE, epoch, written>>
                   ELSE IF ViewRaises(outputs) \/ SaveRaises(files[2])
                   THEN /\ raisedAE' = IF ViewRaises(outputs) THEN "RuntimeError"
                                       ELSE "FileNotFoundError"
                        /\ written' = Append(written, files[1])
                        /\ UNCHANGED <<pcAE, epoch>>
                   ELSE /\ written' = written \o files
                        /\ epoch' = epoch + 1 /\ pcAE' = "epoch"
                        /\ UNCHANGED raisedAE
    /\ UNCHANGED <<trainset, testset, dirs, batch, consumed, steps, running_loss,
                   train_loss, img, outputs>>

\* return train_loss; train_loss = train(model, trainLoader, NUM_EPOCHS)
TrainReturn ==
    /\ RunningAE /\ pcAE = "epoch" /\ epoch > Len(EpochRange)
    /\ train_loss' = losses
    /\ pcAE' = "savefig"
    /\ UNCHANGED <<raisedAE, trainset, testset, dirs, written, epoch, batch, consumed,
                   steps, running_loss, losses, img, outputs>>

\* plt.figure(); plt.plot(train_loss); ...; plt.savefig('conv_ae_cifar10_loss.png')
Savefig ==
    /\ RunningAE /\ pcAE = "savefig"
    /\ written' = Append(written, LOSS_FILE)
    /\ pcAE' = "test_image_reconstruction"
    /\ UNCHANGED <<raisedAE, trainset, testset, dirs, epoch, batch, consumed, steps,
                   running_loss, losses, train_loss, img, outputs>>

\* test_image_reconstruction(model, testLoader): the first batch of the test
\* loader, if there is one, reconstructed and saved
TestImageReconstruction ==
    /\ RunningAE /\ pcAE = "test_image_reconstruction"
    /\ IF LoaderLen(testset) = 0
       THEN /\ pcAE' = "imread" /\ UNCHANGED <<raisedAE, written>>
       ELSE IF ViewRaises(Forward(ImageBatch(BatchLen(testset, 1))))
       THEN /\ raisedAE' = "RuntimeError" /\ UNCHANGED <<pcAE, written>>
       ELSE /\ written' = Append(written, RECONSTRUCTION_FILE)
            /\ pcAE' = "imread"
            /\ UNCHANGED raisedAE
    /\ UNCHANGED <<trainset, testset, dirs, epoch, batch, consumed, steps, running_loss,
                   losses, train_loss, img, outputs>>

\* img = mpimg.imread("conv_cifar10_reconstruction.png"); plt.imshow(img)
Imread ==
    /\ RunningAE /\ pcAE = "imread"
    /\ IF RECONSTRUCTION_FILE \in Elems(written)
       THEN pcAE' = "end" /\ UNCHANGED raisedAE
       ELSE raisedAE' = "FileNotFoundError" /\ UNCHANGED pcAE
    /\ UNCHANGED <<trainset, testset, dirs, written, epoch, batch, consumed, steps,
                   running_loss, losses, train_loss, img, outputs>>

\* notebook 2 before its training cell: the data sets downloaded, the image
\* directory there or not
AEStart ==
    /\ pcAE = "make_dir" /\ raisedAE = "none"
    /\ trainset \in 1..MaxTrainImages
    /\ testset \in 1..MaxTestImages
    /\ dirs \in {{CWD}, {CWD, IMAGE_DIR}}
    /\ written = <<>>
    /\ epoch = 0 /\ batch = 0 /\ consumed = <<>> /\ steps = 0
    /\ running_loss = 0 /\ losses = <<>> /\ train_loss = <<>>
    /\ img = <<>> /\ outputs = <<>>

AEIdle ==
    /\ pcAE = "off" /\ raisedAE = "none"
    /\ trainset = 0 /\ testset = 0
    /\ dirs = {CWD}
    /\ written = <<>>
    /\ epoch = 0 /\ batch = 0 /\ consumed = <<>> /\ steps = 0
    /\ running_loss = 0 /\ losses = <<>> /\ train_loss = <<>>
    /\ img = <<>> /\ outputs = <<>>

----------------------------------------------------------------------------
(* unnamed/part_000: Building a RAG with Hugging Face and Milvus             *)

\* a string is the sequence of its pieces; s + t is s \o t
Str(piece) == <<piece>>
EmptyStr == <<>>

\* every string followed by the separator, the last one too
RECURSIVE JoinTerminated(_, _)
JoinTerminated(sep, strings) ==
    IF strings = <<>> THEN EmptyStr
    ELSE strings[1] \o sep \o JoinTerminated(sep, Tail(strings))

\* sep.join(strings)
RECURSIVE Join(_, _)
Join(sep, strings) ==
    IF strings = <<>> THEN EmptyStr
    ELSE IF Len(strings) = 1 THEN strings[1]
    ELSE strings[1] \o sep \o Join(sep, Tail(strings))

\* the texts a chunk of the PDF may hold
Texts == {Str("a"), Str("b"), Str("c")}

\* the text of a page, as the sequence of the chunk texts the splitter will
\* cut it into: a page without text, a short page, a page of two chunks
PageContents == {<<>>, <<Str("a")>>, <<Str("b"), Str("c")>>}

\* the PDFs the loader may be given
Pdfs ==
    UNION {{Tup([k \in 1..p |-> [page_content |-> f[k]]]) : f \in [1..p -> PageContents]} :
              p \in 0..MaxPages}

\* PyPDFLoader(path).load(): one document per page
PyPDFLoaderLoad(pdf) == pdf

\* RecursiveCharacterTextSplitter.split_documents(docs): the chunks of the
\* first document, then those of the second, ...; no chunk spans two documents
RECURSIVE split_documents(_)
split_documents(ds) ==
    IF ds = <<>> THEN <<>>
    ELSE Tup([k \in 1..Len(ds[1].page_content) |-> [page_content |-> ds[1].page_content[k]]])
            \o split_documents(Tail(ds))

\* SentenceTransformer.encode: one vector of the model's dimension per text,
\* the same vector whenever the text is the same
TextCode(text) ==
    CASE text = Str("a") -> 1
      [] text = Str("b") -> 2
      [] text = Str("c") -> 3
      [] OTHER -> 4 + Len(text)
Encode1(text) ==
    Tup([k \in 1..EmbeddingDim |-> ((TextCode(text) * (k + 1) + k * k) % 5) - 2])

\* emb_text(text)
emb_text(text) == Encode1(text)

FISH == Str("This is a fish")
QUESTION == Str("What are forbidden AI applications?")
COLLECTION_NAME == "rag_collection"
REPO_ID == "mistralai/Mixtral-8x7B-Instruct-v0.1"

NoValue == <<"unset">>
NoCollection == [exists |-> FALSE, dimension |-> 0, entities |-> <<>>]

\* the inner product of two vectors of the same length
InnerProduct(u, v) == SumSeq([k \in 1..Len(u) |-> u[k] * v[k]])

\* a collection created with the dimension of another embedding model
CreateCollectionOtherDim(dimension) ==
    [exists |-> TRUE, dimension |-> dimension + 1, entities |-> <<>>]

\* milvus_client.create_collection(collection_name, dimension, metric_type="IP")
CreateCollection(dimension) ==
    [exists |-> TRUE, dimension |-> dimension, entities |-> <<>>]

\* a test that never finds the collection
has_collection_never(coll) == FALSE

\* milvus_client.has_collection(collection_name)
has_collection(coll) == coll.exists

\* create_collection of a name in use: the stored collection is kept when its
\* dimension is the one asked for, and the call is refused otherwise
CreateRaises(coll, dimension) == coll.exists /\ coll.dimension # dimension

\* MilvusException: a vector of the wrong dimension
InsertRaises(coll, rows) ==
    \/ ~coll.exists
    \/ \E k \in 1..Len(rows) : Len(rows[k].vector) # coll.dimension

\* milvus_client.upsert(collection_name, data): the stored entities of the
\* same primary keys are replaced by the rows
Upsert(coll, rows) ==
    LET given == {rows[k].id : k \in 1..Len(rows)}
        kept(e) == e.id \notin given
    IN  [coll EXCEPT !.entities = SelectSeq(@, kept) \o rows]

\* milvus_client.insert(collection_name, data): the rows are added to the
\* collection; primary keys are not checked against those already stored
Insert(coll, rows) == [coll EXCEPT !.entities = @ \o rows]

\* one hit of a search, with output_fields=["text"]
Hit(e, q) == [id |-> e.id, distance |-> InnerProduct(e.vector, q),
              entity |-> [text |-> e.text]]

\* a search that returns the first entities stored, whatever their score
SearchFirstStored(coll, q, limit) ==
    LET n == Len(coll.entities)
        k == IF n < limit THEN n ELSE limit
    IN  {[a \in 1..k |-> a]}

\* the results milvus_client.search(data=[q], limit=limit) may give for the one
\* query vector: the limit entities of largest inner product, largest first,
\* entities of equal inner product in any order
SearchOrders(coll, q, limit) ==
    LET n == Len(coll.entities)
        k == IF n < limit THEN n ELSE limit
        ip(j) == InnerProduct(coll.entities[j].vector, q)
    IN  {o \in [1..k -> 1..n] :
            /\ \A a, b \in 1..k : a < b => o[a] # o[b] /\ ip(o[a]) >= ip(o[b])
            /\ \A j \in 1..n : (\A a \in 1..k : o[a] # j) =>
                                  \A a \in 1..k : ip(o[a]) >= ip(j)}
Search(coll, q, limit) ==
    {<<Tup([a \in 1..Len(o) |-> Hit(coll.entities[o[a]], q)])>> :
        o \in SearchOrders(coll, q, limit)}
SearchRaises(coll, q) == ~coll.exists \/ Len(q) # coll.dimension

\* the prompt template: literal text and replacement fields
Field(name) == IF name = "context" THEN "{context}" ELSE "{question}"
PROMPT ==
    <<"\nUse the following pieces of information enclosed in <context> tags to provide an answer to the question enclosed in <question> tags.\n<context>\n",
      Field("context"),
      "\n</context>\n<question>\n",
      Field("question"),
      "\n</question>\n">>

\* template.format(context=context, question=question)
RECURSIVE Format2(_, _, _)
Format2(template, ctx, q) ==
    IF template = <<>> THEN EmptyStr
    ELSE (IF template[1] = Field("context") THEN ctx
          ELSE IF template[1] = Field("question") THEN q
          ELSE Str(template[1])) \o Format2(Tail(template), ctx, q)

\* str.strip(): white space at both ends removed
WhiteSpace == {" ", "\n"}
RECURSIVE Strip(_)
Strip(s) ==
    IF s = <<>> THEN s
    ELSE IF s[1] \in WhiteSpace THEN Strip(Tail(s))
    ELSE IF s[Len(s)] \in WhiteSpace THEN Strip(SubSeq(s, 1, Len(s) - 1))
    ELSE s

\* what the hosted model sends back for a prompt
TextGeneration(p) == <<" ", "generated">> \o (IF p = EmptyStr THEN <<>> ELSE <<"text">>) \o <<"\n">>

\* a library call, as the log of calls keeps it
Call(op, arg) == [op |-> op, arg |-> arg]
NoArg == <<>>

\* a kernel that runs on after an error
RunningRagAfterError == TRUE

\* no statement of the notebook has raised: a cell stops at the statement
\* that raises, and the run with it
RunningRag == raisedRag = "none"

\* the for loop stops after the first line
MoreLinesFirstOnly(d, lines) == d = <<>> /\ lines # <<>>

\* for i, line in enumerate(text_lines): whether the loop has a line left
MoreLines(d, lines) == Len(d) < Len(lines)

\* the cells of the notebook, and the statements of its insert cell, top to bottom
RagOrder == <<"token", "wget", "load", "split", "text_lines", "test_embedding",
              "milvus_client", "drop", "create", "data", "embed_chunks", "question",
              "search", "retrieved", "context", "inference_client", "format",
              "generate", "end">>
RagIndex(cell) == CHOOSE k \in 1..Len(RagOrder) : RagOrder[k] = cell

\* the run is past the given cell
PastRag(cell) == pcRag \in Elems(RagOrder) /\ RagIndex(pcRag) > RagIndex(cell)

\* an entity whose id does not follow the position of its line
EntityIdZero(i, line) == [id |-> 0, vector |-> emb_text(line), text |-> line]

\* {"id": i, "vector": emb_text(line), "text": line}
Entity(i, line) == [id |-> i, vector |-> emb_text(line), text |-> line]

\* os.environ.setdefault(name, value): a variable that is set keeps its value
SetDefault(env, name, value) ==
    [env EXCEPT ![name] = IF @ = NoValue THEN value ELSE @]

\* os.environ[name] = value
SetItem(env, name, value) == [env EXCEPT ![name] = value]

\* os.environ["HF_TOKEN"] = ""
TokenCell ==
    /\ RunningRag /\ pcRag = "token"
    /\ environ' = SetItem(environ, "HF_TOKEN", EmptyStr)
    /\ pcRag' = "wget"
    /\ UNCHANGED <<raisedRag, pdf_on_disk, docs, chunks, text_lines, test_embedding,
                   embedding_dim, store, data, insert_res, question, search_res,
                   retrieved_lines_with_distances, context, llm_client, prompt, answer,
                   calls, reruns>>

\* if [ ! -f "The-AI-Act.pdf" ]; then wget -q <url>; fi
WgetCell ==
    /\ RunningRag /\ pcRag = "wget"
    /\ IF pdf_on_disk.exists
       THEN UNCHANGED pdf_on_disk
       ELSE \E served \in Pdfs : pdf_on_disk' = [exists |-> TRUE, pages |-> served]
    /\ pcRag' = "load"
    /\ UNCHANGED <<raisedRag, environ, docs, chunks, text_lines, test_embedding,
                   embedding_dim, store, data, insert_res, question, search_res,
                   retrieved_lines_with_distances, context, llm_client, prompt, answer,
                   calls, reruns>>

\* loader = PyPDFLoader("The-AI-Act.pdf"); docs = loader.load()
LoadPdfCell ==
    /\ RunningRag /\ pcRag = "load"
    /\ IF ~pdf_on_disk.exists
       THEN /\ raisedRag' = "ValueError"
            /\ UNCHANGED <<pcRag, docs, calls>>
       ELSE /\ docs' = PyPDFLoaderLoad(pdf_on_disk.pages)
            /\ calls' = Append(calls, Call("load", NoArg))
            /\ pcRag' = "split"
            /\ UNCHANGED raisedRag
    /\ UNCHANGED <<environ, pdf_on_disk, chunks, text_lines, test_embedding,
                   embedding_dim, store, data, insert_res, question, search_res,
                   retrieved_lines_with_distances, context, llm_client, prompt, answer,
                   reruns>>

\* text_splitter = RecursiveCharacterTextSplitter(chunk_size=1000, chunk_overlap=200)
\* chunks = text_splitter.split_documents(docs)
SplitCell ==
    /\ RunningRag /\ pcRag = "split"
    /\ chunks' = split_documents(docs)
    /\ calls' = Append(calls, Call("split_documents", NoArg))
    /\ pcRag' = "text_lines"
    /\ UNCHANGED <<raisedRag, environ, pdf_on_disk, docs, text_lines, test_embedding,
                   embedding_dim, store, data, insert_res, question, search_res,
                   retrieved_lines_with_distances, context, llm_client, prompt, answer,
                   reruns>>

\* text_lines = [chunk.page_content for chunk in chunks]
TextLinesCell ==
    /\ RunningRag /\ pcRag = "text_lines"
    /\ text_lines' = [k \in 1..Len(chunks) |-> chunks[k].page_content]
    /\ pcRag' = "test_embedding"
    /\ UNCHANGED <<raisedRag, environ, pdf_on_disk, docs, chunks, test_embedding,
                   embedding_dim, store, data, insert_res, question, search_res,
                   retrieved_lines_with_distances, context, llm_client, prompt, answer,
                   calls, reruns>>

\* embedding_model = SentenceTransformer(...); def emb_text ...
\* test_embedding = emb_text("This is a fish"); embedding_dim = len(test_embedding)
TestEmbeddingCell ==
    /\ RunningRag /\ pcRag = "test_embedding"
    /\ test_embedding' = emb_text(FISH)
    /\ embedding_dim' = Len(emb_text(FISH))
    /\ calls' = Append(calls, Call("encode", FISH))
    /\ pcRag' = "milvus_client"
    /\ UNCHANGED <<raisedRag, environ, pdf_on_disk, docs, chunks, text_lines, store,
                   data, insert_res, question, search_res,
                   retrieved_lines_with_distances, context, llm_client, prompt, answer,
                   reruns>>

\* milvus_client = MilvusClient(uri="./hf_milvus_demo.db"); collection_name = "rag_collection"
MilvusClientCell ==
    /\ RunningRag /\ pcRag = "milvus_client"
    /\ pcRag' = "drop"
    /\ UNCHANGED <<raisedRag, environ, pdf_on_disk, docs, chunks, text_lines,
                   test_embedding, embedding_dim, store, data, insert_res, question,
                   search_res, retrieved_lines_with_distances, context, llm_client,
                   prompt, answer, calls, reruns>>

\* if milvus_client.has_collection(collection_name):
\*     milvus_client.drop_collection(collection_name)
DropCell ==
    /\ RunningRag /\ pcRag = "drop"
    /\ IF has_collection(store[COLLECTION_NAME])
       THEN /\ store' = [store EXCEPT ![COLLECTION_NAME] = NoCollection]
            /\ calls' = Append(calls, Call("drop_collection", NoArg))
       ELSE UNCHANGED <<store, calls>>
    /\ pcRag' = "create"
    /\ UNCHANGED <<raisedRag, environ, pdf_on_disk, docs, chunks, text_lines,
                   test_embedding, embedding_dim, data, insert_res, question,
                   search_res, retrieved_lines_with_distances, context, llm_client,
                   prompt, answer, reruns>>

\* milvus_client.create_collection(collection_name=collection_name,
\*     dimension=embedding_dim, metric_type="IP", consistency_level="Strong")
\* (the drop cell has run just before: no collection of that name exists)
CreateCell ==
    /\ RunningRag /\ pcRag = "create"
    /\ IF CreateRaises(store[COLLECTION_NAME], embedding_dim)
       THEN /\ raisedRag' = "MilvusException"
            /\ UNCHANGED <<pcRag, store, calls>>
       ELSE /\ store' = [store EXCEPT ![COLLECTION_NAME] =
                            IF @.exists THEN @ ELSE CreateCollection(embedding_dim)]
            /\ calls' = Append(calls, Call("create_collection", NoArg))
            /\ pcRag' = "data"
            /\ UNCHANGED raisedRag
    /\ UNCHANGED <<environ, pdf_on_disk, docs, chunks, text_lines,
                   test_embedding, embedding_dim, data, insert_res, question,
                   search_res, retrieved_lines_with_distances, context, llm_client,
                   prompt, answer, reruns>>

\* data = []
DataCell ==
    /\ RunningRag /\ pcRag = "data"
    /\ data' = <<>>
    /\ pcRag' = "embed_chunks"
    /\ UNCHANGED <<raisedRag, environ, pdf_on_disk, docs, chunks, text_lines,
                   test_embedding, embedding_dim, store, insert_res, question,
                   search_res, retrieved_lines_with_distances, context, llm_client,
                   prompt, answer, calls, reruns>>

\* for i, line in enumerate(tqdm(text_lines, ...)):
\*     data.append({"id": i, "vector": emb_text(line), "text": line})
EmbedChunk ==
    /\ RunningRag /\ pcRag = "embed_chunks" /\ MoreLines(data, text_lines)
    /\ LET i == Len(data)
           line == text_lines[i + 1]
       IN  /\ data' = Append(data, Entity(i, line))
           /\ calls' = Append(calls, Call("encode", line))
    /\ UNCHANGED <<pcRag, raisedRag, environ, pdf_on_disk, docs, chunks, text_lines,
                   test_embedding, embedding_dim, store, insert_res, question,
                   search_res, retrieved_lines_with_distances, context, llm_client,
                   prompt, answer, reruns>>

\* the loop, emb_text(line) raising (embedding_model.encode fails): the cell
\* has no try, the error leaves the loop and the cell
EmbedChunkFails ==
    /\ RunningRag /\ pcRag = "embed_chunks" /\ MoreLines(data, text_lines)
    /\ raisedRag' = "RuntimeError"
    /\ calls' = Append(calls, Call("encode", text_lines[Len(data) + 1]))
    /\ UNCHANGED <<pcRag, environ, pdf_on_disk, docs, chunks, text_lines,
                   test_embedding, embedding_dim, store, data, insert_res, question,
                   search_res, retrieved_lines_with_distances, context, llm_client,
                   prompt, answer, reruns>>

\* insert_res = milvus_client.insert(collection_name=collection_name, data=data)
\* (an empty data returns at once with insert_count 0)
InsertCall ==
    /\ RunningRag /\ pcRag = "embed_chunks" /\ ~MoreLines(data, text_lines)
    /\ IF data # <<>> /\ InsertRaises(store[COLLECTION_NAME], data)
       THEN /\ raisedRag' = "MilvusException"
            /\ UNCHANGED <<pcRag, store, insert_res, calls>>
       ELSE /\ store' = [store EXCEPT ![COLLECTION_NAME] =
                            IF data = <<>> THEN @ ELSE Insert(@, data)]
            /\ insert_res' = [insert_count |-> Len(data)]
            /\ calls' = Append(calls, Call("insert", NoArg))
            /\ pcRag' = "question"
            /\ UNCHANGED raisedRag
    /\ UNCHANGED <<environ, pdf_on_disk, docs, chunks, text_lines, test_embedding,
                   embedding_dim, data, question, search_res,
                   retrieved_lines_with_distances, context, llm_client, prompt, answer,
                   reruns>>

\* question = "What are forbidden AI applications?"
QuestionCell ==
    /\ RunningRag /\ pcRag = "question"
    /\ question' = QUESTION
    /\ pcRag' = "search"
    /\ UNCHANGED <<raisedRag, environ, pdf_on_disk, docs, chunks, text_lines,
                   test_embedding, embedding_dim, store, data, insert_res, search_res,
                   retrieved_lines_with_distances, context, llm_client, prompt, answer,
                   calls, reruns>>

\* search_res = milvus_client.search(collection_name=collection_name,
\*     data=[emb_text(question)], limit=3, search_params=..., output_fields=["text"])
SearchCell ==
    /\ RunningRag /\ pcRag = "search"
    /\ IF SearchRaises(store[COLLECTION_NAME], emb_text(question))
       THEN /\ raisedRag' = "MilvusException"
            /\ calls' = Append(calls, Call("encode", question))
            /\ UNCHANGED <<pcRag, search_res>>
       ELSE /\ search_res' \in Search(store[COLLECTION_NAME], emb_text(question), SEARCH_LIMIT)
            /\ calls' = calls \o <<Call("encode", question), Call("search", emb_text(question))>>
            /\ pcRag' = "retrieved"
            /\ UNCHANGED raisedRag
    /\ UNCHANGED <<environ, pdf_on_disk, docs, chunks, text_lines, test_embedding,
                   embedding_dim, store, data, insert_res, question,
                   retrieved_lines_with_distances, context, llm_client, prompt, answer,
                   reruns>>

\* retrieved_lines_with_distances = [
\*     (res["entity"]["text"], res["distance"]) for res in search_res[0]]
RetrievedCell ==
    /\ RunningRag /\ pcRag = "retrieved"
    /\ retrieved_lines_with_distances' =
          Tup([k \in 1..Len(search_res[1]) |->
                <<search_res[1][k].entity.text, search_res[1][k].distance>>])
    /\ pcRag' = "context"
    /\ UNCHANGED <<raisedRag, environ, pdf_on_disk, docs, chunks, text_lines,
                   test_embedding, embedding_dim, store, data, insert_res, question,
                   search_res, context, llm_client, prompt, answer, calls, reruns>>

\* context = "\n".join(
\*     [line_with_distance[0] for line_with_distance in retrieved_lines_with_distances])
ContextCell ==
    /\ RunningRag /\ pcRag = "context"
    /\ context' = Join(Str("\n"), [k \in 1..Len(retrieved_lines_with_distances) |->
                                      retrieved_lines_with_distances[k][1]])
    /\ calls' = Append(calls, Call("join", NoArg))
    /\ pcRag' = "inference_client"
    /\ UNCHANGED <<raisedRag, environ, pdf_on_disk, docs, chunks, text_lines,
                   test_embedding, embedding_dim, store, data, insert_res, question,
                   search_res, retrieved_lines_with_distances, llm_client, prompt,
                   answer, reruns>>

\* PROMPT = """..."""
\* repo_id = "mistralai/Mixtral-8x7B-Instruct-v0.1"
\* llm_client = InferenceClient(model=repo_id, timeout=120)
InferenceClientCell ==
    /\ RunningRag /\ pcRag = "inference_client"
    /\ llm_client' = [model |-> REPO_ID, timeout |-> 120, token |-> environ["HF_TOKEN"]]
    /\ pcRag' = "format"
    /\ UNCHANGED <<raisedRag, environ, pdf_on_disk, docs, chunks, text_lines,
                   test_embedding, embedding_dim, store, data, insert_res, question,
                   search_res, retrieved_lines_with_distances, context, prompt, answer,
                   calls, reruns>>

\* prompt = PROMPT.format(context=context, question=question)
FormatCell ==
    /\ RunningRag /\ pcRag = "format"
    /\ prompt' = Format2(PROMPT, context, question)
    /\ calls' = Append(calls, Call("format", NoArg))
    /\ pcRag' = "generate"
    /\ UNCHANGED <<raisedRag, environ, pdf_on_disk, docs, chunks, text_lines,
                   test_embedding, embedding_dim, store, data, insert_res, question,
                   search_res, retrieved_lines_with_distances, context, llm_client,
                   answer, reruns>>

\* answer = llm_client.text_generation(prompt, max_new_tokens=1000).strip()
GenerateCell ==
    /\ RunningRag /\ pcRag = "generate"
    /\ answer' = Strip(TextGeneration(prompt))
    /\ calls' = Append(calls, Call("text_generation", prompt))
    /\ pcRag' = "end"
    /\ UNCHANGED <<raisedRag, environ, pdf_on_disk, docs, chunks, text_lines,
                   test_embedding, embedding_dim, store, data, insert_res, question,
                   search_res, retrieved_lines_with_distances, context, llm_client,
                   prompt, reruns>>

\* the user runs the insert cell again, the collection left as it is
RerunInsertCell ==
    /\ RunningRag /\ pcRag = "question" /\ reruns < MaxReruns
    /\ reruns' = reruns + 1
    /\ pcRag' = "data"
    /\ UNCHANGED <<raisedRag, environ, pdf_on_disk, docs, chunks, text_lines,
                   test_embedding, embedding_dim, store, data, insert_res, question,
                   search_res, retrieved_lines_with_distances, context, llm_client,
                   prompt, answer, calls>>

\* the user goes back to the drop cell and runs on from there
RerunFromDropCell ==
    /\ RunningRag /\ pcRag = "question" /\ reruns < MaxReruns
    /\ reruns' = reruns + 1
    /\ pcRag' = "drop"
    /\ UNCHANGED <<raisedRag, environ, pdf_on_disk, docs, chunks, text_lines,
                   test_embedding, embedding_dim, store, data, insert_res, question,
                   search_res, retrieved_lines_with_distances, context, llm_client,
                   prompt, answer, calls>>

\* what an earlier run may have left in the database file
STALE_COLLECTION ==
    [exists |-> TRUE, dimension |-> 1,
     entities |-> <<[id |-> 0, vector |-> <<1>>, text |-> Str("old")]>>]

\* notebook 1 before its first cell: the token configured or not, the PDF
\* downloaded or not, the database file with or without a collection
RagStart ==
    /\ pcRag = "token" /\ raisedRag = "none"
    /\ environ \in {[v \in {"HF_TOKEN"} |-> NoValue], [v \in {"HF_TOKEN"} |-> Str("hf_configured")]}
    /\ pdf_on_disk \in {[exists |-> FALSE, pages |-> <<>>]}
                          \cup {[exists |-> TRUE, pages |-> p] : p \in Pdfs}
    /\ docs = <<>> /\ chunks = <<>> /\ text_lines = <<>>
    /\ test_embedding = <<>> /\ embedding_dim = 0
    /\ store \in {[c \in {COLLECTION_NAME} |-> NoCollection],
                  [c \in {COLLECTION_NAME} |-> STALE_COLLECTION]}
    /\ data = <<>> /\ insert_res = [insert_count |-> 0]
    /\ question = EmptyStr /\ search_res = <<>>
    /\ retrieved_lines_with_distances = <<>>
    /\ context = EmptyStr
    /\ llm_client = [model |-> "", timeout |-> 0, token |-> NoValue]
    /\ prompt = EmptyStr /\ answer = EmptyStr
    /\ calls = <<>> /\ reruns = 0

RagIdle ==
    /\ pcRag = "off" /\ raisedRag = "none"
    /\ environ = [v \in {"HF_TOKEN"} |-> NoValue]
    /\ pdf_on_disk = [exists |-> FALSE, pages |-> <<>>]
    /\ docs = <<>> /\ chunks = <<>> /\ text_lines = <<>>
    /\ test_embedding = <<>> /\ embedding_dim = 0
    /\ store = [c \in {COLLECTION_NAME} |-> NoCollection]
    /\ data = <<>> /\ insert_res = [insert_count |-> 0]
    /\ question = EmptyStr /\ search_res = <<>>
    /\ retrieved_lines_with_distances = <<>>
    /\ context = EmptyStr
    /\ llm_client = [model |-> "", timeout |-> 0, token |-> NoValue]
    /\ prompt = EmptyStr /\ answer = EmptyStr
    /\ calls = <<>> /\ reruns = 0

InitRag == RagStart /\ SkIdle /\ AEIdle

NextRag ==
    \/ TokenCell /\ UNCHANGED <<skVars, aeVars>>
    \/ WgetCell /\ UNCHANGED <<skVars, aeVars>>
    \/ LoadPdfCell /\ UNCHANGED <<skVars, aeVars>>
    \/ SplitCell /\ UNCHANGED <<skVars, aeVars>>
    \/ TextLinesCell /\ UNCHANGED <<skVars, aeVars>>
    \/ TestEmbeddingCell /\ UNCHANGED <<skVars, aeVars>>
    \/ MilvusClientCell /\ UNCHANGED <<skVars, aeVars>>
    \/ DropCell /\ UNCHANGED <<skVars, aeVars>>
    \/ CreateCell /\ UNCHANGED <<skVars, aeVars>>
    \/ DataCell /\ UNCHANGED <<skVars, aeVars>>
    \/ EmbedChunk /\ UNCHANGED <<skVars, aeVars>>
    \/ InsertCall /\ UNCHANGED <<skVars, aeVars>>
    \/ QuestionCell /\ UNCHANGED <<skVars, aeVars>>
    \/ SearchCell /\ UNCHANGED <<skVars, aeVars>>
    \/ RetrievedCell /\ UNCHANGED <<skVars, aeVars>>
    \/ ContextCell /\ UNCHANGED <<skVars, aeVars>>
    \/ InferenceClientCell /\ UNCHANGED <<skVars, aeVars>>
    \/ FormatCell /\ UNCHANGED <<skVars, aeVars>>
    \/ GenerateCell /\ UNCHANGED <<skVars, aeVars>>

SpecRag == InitRag /\ [][NextRag]_vars

\* notebook 1 with a user who may run the ingestion cells again
NextRagRerun ==
    \/ TokenCell /\ UNCHANGED <<skVars, aeVars>>
    \/ WgetCell /\ UNCHANGED <<skVars, aeVars>>
    \/ LoadPdfCell /\ UNCHANGED <<skVars, aeVars>>
    \/ SplitCell /\ UNCHANGED <<skVars, aeVars>>
    \/ TextLinesCell /\ UNCHANGED <<skVars, aeVars>>
    \/ TestEmbeddingCell /\ UNCHANGED <<skVars, aeVars>>
    \/ MilvusClientCell /\ UNCHANGED <<skVars, aeVars>>
    \/ DropCell /\ UNCHANGED <<skVars, aeVars>>
    \/ CreateCell /\ UNCHANGED <<skVars, aeVars>>
    \/ DataCell /\ UNCHANGED <<skVars, aeVars>>
    \/ EmbedChunk /\ UNCHANGED <<skVars, aeVars>>
    \/ InsertCall /\ UNCHANGED <<skVars, aeVars>>
    \/ QuestionCell /\ UNCHANGED <<skVars, aeVars>>
    \/ SearchCell /\ UNCHANGED <<skVars, aeVars>>
    \/ RetrievedCell /\ UNCHANGED <<skVars, aeVars>>
    \/ ContextCell /\ UNCHANGED <<skVars, aeVars>>
    \/ InferenceClientCell /\ UNCHANGED <<skVars, aeVars>>
    \/ FormatCell /\ UNCHANGED <<skVars, aeVars>>
    \/ GenerateCell /\ UNCHANGED <<skVars, aeVars>>
    \/ RerunInsertCell /\ UNCHANGED <<skVars, aeVars>>
    \/ RerunFromDropCell /\ UNCHANGED <<skVars, aeVars>>

SpecRagRerun == InitRag /\ [][NextRagRerun]_vars

InitAE == AEStart /\ SkIdle /\ RagIdle

NextAE ==
    \/ MakeDir /\ UNCHANGED <<skVars, ragVars>>
    \/ EpochStart /\ UNCHANGED <<skVars, ragVars>>
    \/ TrainBatch /\ UNCHANGED <<skVars, ragVars>>
    \/ EpochEnd /\ UNCHANGED <<skVars, ragVars>>
    \/ TrainReturn /\ UNCHANGED <<skVars, ragVars>>
    \/ Savefig /\ UNCHANGED <<skVars, ragVars>>
    \/ TestImageReconstruction /\ UNCHANGED <<skVars, ragVars>>
    \/ Imread /\ UNCHANGED <<skVars, ragVars>>

SpecAE == InitAE /\ [][NextAE]_vars

\* the kernel runs a cell's statements to the end: a step that can be taken is taken
SpecAEFair == SpecAE /\ WF_vars(NextAE)

\* notebook 2 or notebook 1, run top to bottom, with library calls that may fail
InitFail == \/ AEStart /\ SkIdle /\ RagIdle
            \/ RagStart /\ SkIdle /\ AEIdle
NextFail ==
    \/ MakeDir /\ UNCHANGED <<skVars, ragVars>>
    \/ EpochStart /\ UNCHANGED <<skVars, ragVars>>
    \/ TrainBatch /\ UNCHANGED <<skVars, ragVars>>
    \/ EpochEnd /\ UNCHANGED <<skVars, ragVars>>
    \/ TrainReturn /\ UNCHANGED <<skVars, ragVars>>
    \/ Savefig /\ UNCHANGED <<skVars, ragVars>>
    \/ TestImageReconstruction /\ UNCHANGED <<skVars, ragVars>>
    \/ Imread /\ UNCHANGED <<skVars, ragVars>>
    \/ TrainBatchFails /\ UNCHANGED <<skVars, ragVars>>
    \/ TokenCell /\ UNCHANGED <<skVars, aeVars>>
    \/ WgetCell /\ UNCHANGED <<skVars, aeVars>>
    \/ LoadPdfCell /\ UNCHANGED <<skVars, aeVars>>
    \/ SplitCell /\ UNCHANGED <<skVars, aeVars>>
    \/ TextLinesCell /\ UNCHANGED <<skVars, aeVars>>
    \/ TestEmbeddingCell /\ UNCHANGED <<skVars, aeVars>>
    \/ MilvusClientCell /\ UNCHANGED <<skVars, aeVars>>
    \/ DropCell /\ UNCHANGED <<skVars, aeVars>>
    \/ CreateCell /\ UNCHANGED <<skVars, aeVars>>
    \/ DataCell /\ UNCHANGED <<skVars, aeVars>>
    \/ EmbedChunk /\ UNCHANGED <<skVars, aeVars>>
    \/ InsertCall /\ UNCHANGED <<skVars, aeVars>>
    \/ QuestionCell /\ UNCHANGED <<skVars, aeVars>>
    \/ SearchCell /\ UNCHANGED <<skVars, aeVars>>
    \/ RetrievedCell /\ UNCHANGED <<skVars, aeVars>>
    \/ ContextCell /\ UNCHANGED <<skVars, aeVars>>
    \/ InferenceClientCell /\ UNCHANGED <<skVars, aeVars>>
    \/ FormatCell /\ UNCHANGED <<skVars, aeVars>>
    \/ GenerateCell /\ UNCHANGED <<skVars, aeVars>>
    \/ EmbedChunkFails /\ UNCHANGED <<skVars, aeVars>>

SpecFail == InitFail /\ [][NextFail]_vars

InitSk == SkStart /\ AEIdle /\ RagIdle

NextSk ==
    \/ ReadCsv /\ UNCHANGED <<aeVars, ragVars>>
    \/ MakeXy /\ UNCHANGED <<aeVars, ragVars>>
    \/ Split /\ UNCHANGED <<aeVars, ragVars>>
    \/ NewClf /\ UNCHANGED <<aeVars, ragVars>>
    \/ FitClf /\ UNCHANGED <<aeVars, ragVars>>
    \/ PredictCell /\ UNCHANGED <<aeVars, ragVars>>
    \/ ScoreTrain /\ UNCHANGED <<aeVars, ragVars>>
    \/ ScoreTest /\ UNCHANGED <<aeVars, ragVars>>
    \/ Report /\ UNCHANGED <<aeVars, ragVars>>
    \/ AccuracyCell /\ UNCHANGED <<aeVars, ragVars>>
    \/ SeedCell /\ UNCHANGED <<aeVars, ragVars>>
    \/ Loop1Body /\ UNCHANGED <<aeVars, ragVars>>
    \/ Loop2Body /\ UNCHANGED <<aeVars, ragVars>>
    \/ GridCell /\ UNCHANGED <<aeVars, ragVars>>
    \/ BestCell /\ UNCHANGED <<aeVars, ragVars>>
    \/ RefitCell /\ UNCHANGED <<aeVars, ragVars>>
    \/ DumpCell /\ UNCHANGED <<aeVars, ragVars>>
    \/ LoadCell /\ UNCHANGED <<aeVars, ragVars>>

SpecSk == InitSk /\ [][NextSk]_vars

----------------------------------------------------------------------------
(* Properties of notebook 3, checked under SpecSk                            *)

\* C1: no fit anywhere in notebook 3 (a direct fit, a fit inside
\* cross_val_score, or GridSearchCV.fit) is given a row of the test split.
C1_NoFitSeesTestRows ==
    Past("split") => \A f \in fits : f.rows \cap Rows(X_test) = {}

\* C2: the train/test split partitions the rows of X: the rows of X_train
\* and X_test are disjoint and together the rows of X, the test split holds
\* 25% of the rows rounded up, and y_train / y_test hold the labels of the
\* same rows, in the same order, as X_train / X_test.
C2_SplitPartitionsRows ==
    Past("split") =>
        LET n == Len(X.index)
            t == Len(X_test.index)
        IN  /\ Rows(X_train) \cap Rows(X_test) = {}
            /\ Rows(X_train) \cup Rows(X_test) = Rows(X)
            /\ Len(X_train.index) + t = n
            /\ 4 * t >= n /\ 4 * (t - 1) < n
            /\ y_train.index = X_train.index /\ y_test.index = X_test.index
            /\ \A k \in 1..Len(y_train.index) :
                  y_train.values[k] = heart_disease.target[y_train.index[k] + 1]
            /\ \A k \in 1..Len(y_test.index) :
                  y_test.values[k] = heart_disease.target[y_test.index[k] + 1]

\* a split of 7 rows: 2 test rows (1.75 rounded up) and 5 train rows
C2_Witness ==
    /\ pc = "new_clf" /\ Len(X.index) = 7
    /\ Len(X_test.index) = 2 /\ Len(X_train.index) = 5

\* C3: the grid search is exhaustive: each of the 40 combinations of
\* n_estimators in {100, ..., 190} and max_features in {1, ..., 4} is
\* evaluated on each of the 5 folds exactly once, and best_params_ is a
\* combination whose mean cross-validation score is the maximum of the 40.
C3_GridSearchExhaustive ==
    grid.fitted =>
        LET combos == {[max_features |-> m, n_estimators |-> 100 + 10 * j] :
                          m \in 1..4, j \in 0..9}
            res == grid.cv_results_
        IN  /\ Cardinality(combos) = 40
            /\ Len(res) = 40
            /\ {res[c].params : c \in 1..Len(res)} = combos
            /\ \A c \in 1..Len(res) : \A i \in 0..4 :
                  Cardinality({e \in 1..Len(grid.evaluated) :
                                  grid.evaluated[e] = [cand |-> c, split |-> i]}) = 1
            /\ Len(grid.evaluated) = 200
            /\ \A c \in 1..Len(res) : Len(res[c].split_test_score) = 5
            /\ \E b \in 1..Len(res) :
                  /\ grid.best_params_ = res[b].params
                  /\ grid.best_score_ = res[b].mean_test_score
                  /\ \A c \in 1..Len(res) :
                        ~FracLess(res[b].mean_test_score, res[c].mean_test_score)

\* a fitted grid whose candidates do not all score the same
C3_Witness ==
    /\ pc = "best" /\ grid.fitted
    /\ \E c \in 1..Len(grid.cv_results_) :
          FracLess(grid.cv_results_[c].mean_test_score, grid.best_score_)

\* C4: accuracy_score(y_test, y_preds) is the value clf.score(X_test, y_test)
\* gave, clf not being refitted between the predict, score and accuracy cells.
C4_AccuracyIsScore ==
    Past("accuracy") => accuracy = test_acc

\* the accuracy cell has run on a classifier that is right on some test rows
\* and wrong on others
C4_Witness ==
    /\ pc = "loop1" /\ heap[clf].fitted
    /\ 0 < accuracy.num /\ accuracy.num < accuracy.den

\* C5: saving and loading the model is a round trip: the file is written
\* before it is read, the loaded object is the grid-search object as dumped,
\* and it predicts every row of X_test as the dumped object does.
C5_PickleRoundTrip ==
    /\ \A k \in 1..Len(opened) :
          opened[k] = <<MODEL_FILE, "rb">> =>
              \E j \in 1..(k - 1) : opened[j] = <<MODEL_FILE, "wb">>
    /\ Past("load") =>
          /\ loaded_pickle_model.fitted
          /\ [loaded_pickle_model EXCEPT !.best_estimator_ = grid.best_estimator_] = grid
          /\ heap[loaded_pickle_model.best_estimator_] = heap[grid.best_estimator_]
          /\ Predict(heap[loaded_pickle_model.best_estimator_], X_test)
                = Predict(heap[grid.best_estimator_], X_test)

\* the model loaded at the end of a run, the dumped estimator being the one
\* the refit cell fitted on the train split
C5_Witness ==
    /\ pc = "end" /\ opened = << <<MODEL_FILE, "wb">>, <<MODEL_FILE, "rb">> >>
    /\ heap[loaded_pickle_model.best_estimator_].fitted
    /\ heap[loaded_pickle_model.best_estimator_].rows = Rows(X_train)
    /\ Len(X_test.index) >= 2

\* C6: the values of n_estimators for which the experiment fits a forest
\* begin at 100 and reach 200.
C6_EstimatorsReachTwoHundred ==
    Past("loop1_body") =>
        LET tried == {f.n_estimators : f \in {g \in fits : g.site = "loop1"}}
        IN  /\ 100 \in tried /\ \A v \in tried : v >= 100
            /\ 200 \in tried


-----------------------------------------------------------------------\* C20: X holds every column of the dataset except target and y holds exactly
\* the target column, so that no frame given to a fit, a predict or a score
\* has the label among its columns; building X and y, and every later cell,
\* leaves the loaded table heart_disease as read_csv gave it.
C20_LabelIsNotAFeature ==
    /\ [](/\ Past("read_csv") => heart_disease.columns = Columns
          /\ Past("make_Xy") =>
                /\ X.columns = heart_disease.columns \ {"target"}
                /\ X.columns = FeatureColumns
                /\ X.index = heart_disease.index
                /\ y = [index |-> heart_disease.index,
                        values |-> heart_disease.target]
          /\ Past("split") =>
                "target" \notin X_train.columns \cup X_test.columns
          /\ \A f \in fits : "target" \notin f.columns)
    /\ [][pc # "read_csv" => heart_disease' = heart_disease]_vars
C20_Witness ==
    /\ pc = "end" /\ Cardinality(fits) > CV /\ Len(heart_disease.index) = MaxRows
    /\ X.columns = FeatureColumns /\ "target" \in heart_disease.columns
    /\ \A f \in fits : f.columns = FeatureColumns

-----
(* Properties of notebook 2, checked under SpecAE                            *)

\* C7: the autoencoder passes its input through a lower-dimensional
\* bottleneck: the output of the encoder (after enc2) has fewer values than
\* the 3x32x32 images it is given.
C7_EncoderIsBottleneck ==
    img # <<>> => Numel(Encode(img)) < Numel(img)

\* C8: train performs exactly NUM_EPOCHS (10) epochs and terminates; each
\* epoch takes every batch of the loader exactly once, and the optimizer
\* steps number NUM_EPOCHS times the number of batches.
C8_TrainRunsNumEpochs ==
    /\ [](/\ pcAE = "batch" => \A b \in DOMAIN consumed : consumed[b] <= 1
          /\ (pcAE = "epoch" /\ epoch > 1) =>
                /\ DOMAIN consumed = 1..LoaderLen(trainset)
                /\ \A b \in DOMAIN consumed : consumed[b] = 1
                /\ steps = (epoch - 1) * LoaderLen(trainset)
          /\ pcAE \in {"savefig", "test_image_reconstruction", "imread", "end"} =>
                /\ NUM_EPOCHS = 10
                /\ Len(train_loss) = NUM_EPOCHS
                /\ steps = NUM_EPOCHS * LoaderLen(trainset))
    /\ <>(pcAE \in {"savefig", "test_image_reconstruction", "imread", "end"})

\* train has returned after 10 epochs over a loader of 3 batches, the last
\* of them short
C8_Witness ==
    /\ pcAE = "savefig" /\ LoaderLen(trainset) = 3 /\ steps = 30
    /\ trainset % BATCH_SIZE # 0

\* the sample images of a training epoch
IsEpochImage(f) == f.stem \in {"original", "decoded"}

\* C9 as stated: training completes, then the reconstructed images are saved,
\* then the loss curve is plotted: no image is saved while train runs, and
\* every reconstructed-image file is written before conv_ae_cifar10_loss.png.
C9_ImagesSavedBeforeLossCurve ==
    /\ pcAE \in {"epoch", "batch"} => written = <<>>
    /\ \A k \in 1..Len(written) :
          (written[k].stem = "decoded" \/ written[k] = RECONSTRUCTION_FILE) =>
              \A j \in 1..(k - 1) : written[j] # LOSS_FILE

\* C9 amended: the original and decoded images of epochs 0 and 5 are saved
\* while train runs; after train has returned conv_ae_cifar10_loss.png is
\* written, and conv_cifar10_reconstruction.png is written after it.
C9_LossCurveBeforeReconstruction ==
    /\ \A k \in 1..Len(written) :
          /\ IsEpochImage(written[k]) => \A j \in 1..(k - 1) : IsEpochImage(written[j])
          /\ written[k] = RECONSTRUCTION_FILE =>
                \E j \in 1..(k - 1) : written[j] = LOSS_FILE
    /\ pcAE \in {"make_dir", "epoch", "batch"} =>
          \A k \in 1..Len(written) : IsEpochImage(written[k])
    /\ pcAE \in {"savefig", "test_image_reconstruction", "imread", "end"} =>
          SubSeq(written, 1, 4) =
              <<Path(IMAGE_DIR, "original", <<0>>), Path(IMAGE_DIR, "decoded", <<0>>),
                Path(IMAGE_DIR, "original", <<5>>), Path(IMAGE_DIR, "decoded", <<5>>)>>
    /\ pcAE \in {"test_image_reconstruction", "imread", "end"} =>
          /\ Len(written) >= 5 /\ written[5] = LOSS_FILE
    /\ pcAE \in {"imread", "end"} =>
          /\ Len(written) = 6 /\ written[6] = RECONSTRUCTION_FILE

\* the run has ended with all six files written
C9_Witness ==
    /\ pcAE = "end" /\ Len(written) = 6
    /\ written[5] = LOSS_FILE /\ written[6] = RECONSTRUCTION_FILE

\* the directory the notebook's text names
CONV_CIFAR10_IMAGES == "./Conv_CIFAR10_Images/"

\* C10: make_dir makes the directory Conv_CIFAR10_Images and every original
\* and decoded image is saved into it.
C10_SavedInConvCifar10Images ==
    /\ pcAE \notin {"off", "make_dir"} => CONV_CIFAR10_IMAGES \in dirs
    /\ \A k \in 1..Len(written) :
          IsEpochImage(written[k]) => written[k].dir = CONV_CIFAR10_IMAGES

-----------------------------------------------------------------------\* C19: make_dir runs before train, creates ./image_cifar10/ only when it is
\* absent and does not fail when it is present, so that the directory exists
\* at every call of save_decoded_image, whether or not it existed before the
\* run, and no image fails to be saved for want of it.
C19_ImageDirExistsWhenSaving ==
    /\ pcAE = "make_dir" => written = <<>> /\ steps = 0 /\ epoch = 0
    /\ raisedAE # "FileExistsError"
    /\ pcAE \in {"epoch", "batch"} =>
          /\ PathExists(IMAGE_DIR)
          /\ raisedAE # "FileNotFoundError"
    /\ \A k \in 1..Len(written) :
          IsEpochImage(written[k]) =>
              written[k].dir = IMAGE_DIR /\ PathExists(written[k].dir)
C19_Witness ==
    /\ pcAE = "batch" /\ PathExists(IMAGE_DIR)
    /\ \E k \in 1..Len(written) : IsEpochImage(written[k])

-----
(* Properties of notebook 1, checked under SpecRag                           *)

\* the place of a library call in the pipeline
Stage(call) ==
    CASE call.op = "load" -> 1
      [] call.op = "split_documents" -> 2
      [] call.op = "encode" /\ call.arg = FISH -> 3
      [] call.op \in {"drop_collection", "create_collection"} -> 3
      [] call.op = "encode" /\ call.arg \notin {FISH, QUESTION} -> 4
      [] call.op = "insert" -> 5
      [] call.op = "encode" /\ call.arg = QUESTION -> 6
      [] call.op = "search" -> 7
      [] call.op = "join" -> 8
      [] call.op = "format" -> 9
      [] call.op = "text_generation" -> 10

\* the calls of the given stage, in order
CallsAt(stage) == SelectSeq(calls, LAMBDA c : Stage(c) = stage)

\* the chunk texts of the PDF on disk, page after page
RECURSIVE PdfTexts(_)
PdfTexts(pages) ==
    IF pages = <<>> THEN <<>> ELSE pages[1].page_content \o PdfTexts(Tail(pages))

\* C11: in a top-to-bottom run of notebook 1 the steps happen in the stated
\* order, each consuming the result of the one before: load, split, every
\* chunk embedded, the chunks written, the query embedded, the search only
\* after every chunk is written, the texts joined, the prompt formatted, and
\* the language model called last, with that prompt.
C11_PipelineOrder ==
    /\ \A j, k \in 1..Len(calls) : j < k => Stage(calls[j]) <= Stage(calls[k])
    /\ \A s \in {1, 2, 5, 6, 7, 8, 9, 10} : Len(CallsAt(s)) <= 1
    /\ PastRag("load") => docs = pdf_on_disk.pages
    /\ PastRag("split") =>
          [k \in 1..Len(chunks) |-> chunks[k].page_content] = PdfTexts(docs)
    /\ CallsAt(5) # <<>> =>
          /\ [k \in 1..Len(CallsAt(4)) |-> CallsAt(4)[k].arg] = PdfTexts(docs)
          /\ [k \in 1..Len(data) |-> data[k].text] = PdfTexts(docs)
          /\ store[COLLECTION_NAME].entities = data
    /\ CallsAt(7) # <<>> =>
          /\ CallsAt(5) # <<>> /\ CallsAt(6) # <<>>
          /\ Len(store[COLLECTION_NAME].entities) = Len(chunks)
          /\ CallsAt(7)[1].arg = emb_text(question)
    /\ PastRag("context") =>
          /\ Len(retrieved_lines_with_distances) = Len(search_res[1])
          /\ \A k \in 1..Len(search_res[1]) :
                retrieved_lines_with_distances[k][1] = search_res[1][k].entity.text
    /\ PastRag("format") => CallsAt(8) # <<>>
    /\ pcRag = "end" =>
          /\ calls[Len(calls)] = Call("text_generation", prompt)
          /\ \A s \in {1, 2, 5, 6, 7, 8, 9, 10} : Len(CallsAt(s)) = 1

\* a run to the end over a PDF of two pages and three chunks
C11_Witness ==
    /\ pcRag = "end" /\ Len(docs) = 2 /\ Len(chunks) = 3
    /\ Len(CallsAt(4)) = 3 /\ Len(search_res[1]) = 3

(* notebook 1 with its ingestion cells run again, checked under SpecRagRerun  *)

\* the insert calls made since the collection was last created
RECURSIVE InsertsSinceCreate(_)
InsertsSinceCreate(log) ==
    IF log = <<>> \/ log[Len(log)].op = "create_collection" THEN 0
    ELSE (IF log[Len(log)].op = "insert" THEN 1 ELSE 0)
         + InsertsSinceCreate(SubSeq(log, 1, Len(log) - 1))

\* the entities of the collection whose primary key is id
EntitiesWithId(id) ==
    LET es == store[COLLECTION_NAME].entities
    IN  Cardinality({k \in 1..Len(es) : es[k].id = id})
ChunkIds == 0..(Len(text_lines) - 1)

\* C12 as stated: after the ingestion cell has run a second time on the same
\* collection, the collection holds exactly one entity per chunk id
C12_SecondRunKeepsOneEntityPerId ==
    (pcRag = "question" /\ InsertsSinceCreate(calls) = 2) =>
        \A id \in ChunkIds : EntitiesWithId(id) = 1

\* C12, amended: the ingestion cell inserts; every run of it on the same
\* collection adds one more entity per chunk id, so that after the second run
\* the collection holds two entities per chunk id and twice as many entities
\* as there are chunks
C12_EveryRunInsertsAgain ==
    (pcRag = "question" /\ RunningRag) =>
        /\ \A id \in ChunkIds : EntitiesWithId(id) = InsertsSinceCreate(calls)
        /\ Len(store[COLLECTION_NAME].entities)
              = Len(text_lines) * InsertsSinceCreate(calls)
C12_Witness ==
    /\ pcRag = "question" /\ InsertsSinceCreate(calls) = 2
    /\ Len(text_lines) = 3
    /\ \A id \in ChunkIds : EntitiesWithId(id) = 2

(* the entities, the search and the prompt, checked under SpecRag            *)

\* the text of chunk i, counted from 0
ChunkText(i) == chunks[i + 1].page_content

\* C13: the entities handed to milvus_client.insert are one per chunk: the ids
\* are exactly 0..n-1, none used twice, the entity with id i carries the text
\* of chunk i and the embedding of that text, and there are as many entities
\* as chunks.
C13_OneEntityPerChunk ==
    CallsAt(5) # <<>> =>
        /\ Len(data) = Len(chunks)
        /\ {data[k].id : k \in 1..Len(data)} = 0..(Len(chunks) - 1)
        /\ \A j, k \in 1..Len(data) : data[j].id = data[k].id => j = k
        /\ \A k \in 1..Len(data) :
              /\ data[k].id \in Int
              /\ data[k].text = ChunkText(data[k].id)
              /\ data[k].vector = Encode1(ChunkText(data[k].id))
        /\ store[COLLECTION_NAME].entities = data
C13_Witness ==
    /\ CallsAt(5) # <<>> /\ Len(chunks) = 3
    /\ store[COLLECTION_NAME].entities = data
    /\ \E j, k \in 1..Len(data) : data[j].text # data[k].text

\* the inner product of the query with the stored entity of the given id
IpWithQuestion(id) ==
    LET es == store[COLLECTION_NAME].entities
        e == es[CHOOSE k \in 1..Len(es) : es[k].id = id]
    IN  InnerProduct(e.vector, Encode1(QUESTION))

\* C14: the search returns min(3, n) of the n entities, largest inner product
\* with the query first, and no entity left out has a larger inner product
\* than one returned.
C14_SearchIsTopThree ==
    PastRag("search") =>
        LET hits == search_res[1]
            es == store[COLLECTION_NAME].entities
            n == Len(es)
            returned == {hits[a].id : a \in 1..Len(hits)}
        IN  /\ Len(search_res) = 1
            /\ Len(hits) = (IF n < 3 THEN n ELSE 3)
            /\ Cardinality(returned) = Len(hits)
            /\ returned \subseteq {es[k].id : k \in 1..n}
            /\ \A a \in 1..Len(hits) :
                  /\ hits[a].distance = IpWithQuestion(hits[a].id)
                  /\ hits[a].entity.text = es[hits[a].id + 1].text
            /\ \A a, b \in 1..Len(hits) :
                  a < b => hits[a].distance >= hits[b].distance
            /\ \A k \in 1..n : es[k].id \notin returned =>
                  \A a \in 1..Len(hits) :
                      IpWithQuestion(es[k].id) <= hits[a].distance
C14_Witness ==
    /\ PastRag("search") /\ Len(store[COLLECTION_NAME].entities) = 4
    /\ Len(search_res[1]) = 3
    /\ search_res[1][1].distance > search_res[1][3].distance
    /\ \E k \in 1..4 :
          /\ \A a \in 1..3 : search_res[1][a].id # k - 1
          /\ IpWithQuestion(k - 1) < search_res[1][3].distance

\* C15: the collection is created with the dimension of the test embedding,
\* and every chunk vector inserted and the query vector searched with have
\* exactly that dimension, so that neither call is refused.
C15_OneDimension ==
    /\ PastRag("test_embedding") =>
          /\ embedding_dim = Len(test_embedding)
          /\ test_embedding = Encode1(FISH)
    /\ PastRag("create") =>
          /\ store[COLLECTION_NAME].exists
          /\ store[COLLECTION_NAME].dimension = embedding_dim
          /\ \A k \in 1..Len(data) : Len(data[k].vector) = embedding_dim
          /\ \A k \in 1..Len(store[COLLECTION_NAME].entities) :
                Len(store[COLLECTION_NAME].entities[k].vector) = embedding_dim
    /\ PastRag("embed_chunks") => CallsAt(5) # <<>>
    /\ PastRag("search") =>
          /\ CallsAt(7) # <<>>
          /\ Len(CallsAt(7)[1].arg) = embedding_dim
    /\ raisedRag # "MilvusException"
C15_Witness ==
    /\ PastRag("search") /\ embedding_dim = EmbeddingDim
    /\ Len(store[COLLECTION_NAME].entities) = 3
    /\ Len(CallsAt(7)[1].arg) = store[COLLECTION_NAME].dimension

\* the text of the k-th search result
ResultText(k) == search_res[1][k].entity.text

\* C16: the context is the texts of the search results, in result order, with
\* a newline between one and the next (the empty string when nothing was
\* retrieved), and the prompt is the fixed template with that context between
\* the <context> tags and the question between the <question> tags.
C16_ContextAndPrompt ==
    /\ PastRag("context") =>
          context = CASE Len(search_res[1]) = 0 -> <<>>
                      [] Len(search_res[1]) = 1 -> ResultText(1)
                      [] Len(search_res[1]) = 2 ->
                            ResultText(1) \o <<"\n">> \o ResultText(2)
                      [] Len(search_res[1]) = 3 ->
                            ResultText(1) \o <<"\n">> \o ResultText(2)
                                \o <<"\n">> \o ResultText(3)
    /\ PastRag("format") =>
          prompt =
            <<"\nUse the following pieces of information enclosed in <context> tags to provide an answer to the question enclosed in <question> tags.\n<context>\n">>
            \o context
            \o <<"\n</context>\n<question>\n">>
            \o <<"What are forbidden AI applications?">>
            \o <<"\n</question>\n">>
C16_Witness ==
    /\ PastRag("format") /\ Len(search_res[1]) = 3
    /\ Len(context) = 5 /\ context[2] = "\n" /\ context[4] = "\n"
    /\ Len(prompt) = 9
C16_WitnessNothingRetrieved ==
    PastRag("format") /\ Len(search_res[1]) = 0 /\ context = <<>> /\ Len(prompt) = 4

(* ingestion run again from the drop cell, checked under SpecRagRerun        *)

\* the create_collection calls made so far
CreateCalls == SelectSeq(calls, LAMBDA c : c.op = "create_collection")

\* C18: once the drop-if-exists, create and insert cells have run in order,
\* the collection holds exactly one entity per chunk of the current run,
\* whatever a collection of that name held before.
C18_IngestionFromDropIsIdempotent ==
    /\ (pcRag = "question" /\ InsertsSinceCreate(calls) = 1) =>
          /\ Len(store[COLLECTION_NAME].entities) = Len(chunks)
          /\ \A i \in 0..(Len(chunks) - 1) :
                /\ EntitiesWithId(i) = 1
                /\ \E k \in 1..Len(chunks) :
                      store[COLLECTION_NAME].entities[k]
                          = [id |-> i, vector |-> Encode1(ChunkText(i)),
                             text |-> ChunkText(i)]
    /\ PastRag("create") => raisedRag = "none"
C18_Witness ==
    /\ pcRag = "question" /\ InsertsSinceCreate(calls) = 1
    /\ Len(CreateCalls) = 2 /\ reruns = 1
    /\ Len(chunks) = 3 /\ Len(store[COLLECTION_NAME].entities) = 3
C18_WitnessStale ==
    /\ pcRag = "question" /\ InsertsSinceCreate(calls) = 1
    /\ Len(CreateCalls) = 1 /\ reruns = 0
    /\ \E k \in 1..Len(calls) : calls[k].op = "drop_collection"
    /\ Len(chunks) = 3 /\ Len(store[COLLECTION_NAME].entities) = 3

(* failures, checked under SpecFail                                          *)

\* C17: no notebook catches, retries or recovers from a failure: the step on
\* which a library call raises leaves the cell where it is, with the error as
\* raised, and no statement runs after it; a failure inside train leaves
\* train_loss unassigned and no loss curve written, and a failure during
\* embedding leaves nothing inserted.
C17_FailureStopsTheCell ==
    /\ [](/\ (raisedAE # "none" /\ pcAE \in {"make_dir", "epoch", "batch"}) =>
                /\ train_loss = <<>>
                /\ LOSS_FILE \notin Elems(written)
                /\ RECONSTRUCTION_FILE \notin Elems(written)
          /\ (raisedRag # "none" /\ pcRag = "embed_chunks") =>
                /\ store[COLLECTION_NAME].entities = <<>>
                /\ \A k \in 1..Len(calls) : calls[k].op # "insert"
                /\ insert_res = [insert_count |-> 0])
    /\ [][/\ (raisedAE # "none" \/ raisedRag # "none") => UNCHANGED vars
          /\ raisedAE' # raisedAE =>
                raisedAE = "none" /\ pcAE' = pcAE /\ train_loss' = train_loss
          /\ raisedRag' # raisedRag =>
                raisedRag = "none" /\ pcRag' = pcRag /\ store' = store
                /\ data' = data]_vars
C17_Witness ==
    /\ raisedAE = "RuntimeError" /\ pcAE = "batch" /\ Len(losses) = 2
    /\ train_loss = <<>> /\ written # <<>>
C17_WitnessEmbedding ==
    /\ raisedRag = "RuntimeError" /\ pcRag = "embed_chunks" /\ Len(data) = 2
    /\ Len(text_lines) = 3 /\ store[COLLECTION_NAME].entities = <<>>

(* the access token, checked under SpecRag                                   *)

====
